---- MODULE Spec2Model ----
(***************************************************************************)
(* Sudodle: the Latin-square constraint solver                             *)
(* (complete_latin_square_backtrack_all_solutions), its first-solution     *)
(* wrapper, the puzzle-discovery driver, the game simulator and the        *)
(* random Latin-square generators, as state machines.                      *)
(*                                                                         *)
(* Conventions.  A Python bitmask is modelled as the set of its set bit    *)
(* positions (bit k set <=> k \in mask), so popcount is Cardinality and    *)
(* the lowest set bit is the minimum.  A grid is a function                *)
(* [0..N-1 -> [0..N-1 -> Int]]; Unknown (-1) marks an empty cell.  A dict  *)
(* keyed by (row, col) is a function whose DOMAIN is a set of pairs; the   *)
(* list of wrong values of a cell is kept as a set (the solver only tests  *)
(* membership).  An optional value is NoneVal or Some(x).                     *)
(***************************************************************************)
EXTENDS Integers, Sequences, FiniteSets, TLC

Unknown == -1
NoneVal == [is_none |-> TRUE]
Some(x) == [is_none |-> FALSE, val |-> x]

(***************************************************************************)
(* Bounds of the model.                                                    *)
(***************************************************************************)
Sizes == 1 .. 3          \* the grid sizes N that are explored
MaxClues == 2            \* entries of known_values and known_wrong_values together
MaxWrong == 1            \* entries of known_wrong_values
MaxMaxSolutions == 2     \* max_solutions is None or 0..MaxMaxSolutions
ClashSize == 4           \* grid size of the calls whose known values clash
MaxDeadlines == 1        \* solver calls of one discovery that hit their deadline

Idx(N) == 0 .. (N - 1)
full_mask(N) == Idx(N)
Cells(N) == Idx(N) \X Idx(N)

Min(S) == CHOOSE x \in S : \A y \in S : x <= y

Range(s) == {s[k] : k \in 1 .. Len(s)}

\* a complete grid whose rows and columns are permutations of 1..N
IsLatin(g, N) ==
    /\ DOMAIN g = Idx(N)
    /\ \A i \in Idx(N) : DOMAIN g[i] = Idx(N)
    /\ \A i \in Idx(N) : {g[i][j] : j \in Idx(N)} = 1 .. N
    /\ \A j \in Idx(N) : {g[i][j] : i \in Idx(N)} = 1 .. N

\* every Latin square of every explored size
LatinSquares ==
    [N \in Sizes |-> {g \in [Idx(N) -> [Idx(N) -> 1 .. N]] : IsLatin(g, N)}]

RECURSIVE SetToSeq(_)
SetToSeq(S) ==
    IF S = {} THEN << >> ELSE LET m == Min(S) IN << m >> \o SetToSeq(S \ {m})

(***************************************************************************)
(* Solver state: the five arrays the closures of the solver share.         *)
(***************************************************************************)
EmptyState(N) ==
    [ square       |-> [i \in Idx(N) |-> [j \in Idx(N) |-> Unknown]],
      row_used     |-> [i \in Idx(N) |-> {}],
      col_used     |-> [j \in Idx(N) |-> {}],
      row_possible |-> [i \in Idx(N) |-> [v \in Idx(N) |-> full_mask(N)]],
      col_possible |-> [j \in Idx(N) |-> [v \in Idx(N) |-> full_mask(N)]] ]

\* the guard 1 <= value <= size of line 64 left out
fill_known_values_unchecked(N, kv) ==
    [i \in Idx(N) |-> [j \in Idx(N) |->
        IF << i, j >> \in DOMAIN kv THEN kv[<< i, j >>] ELSE Unknown]]

\* lines 62-65: known values outside the grid or outside 1..size are skipped
fill_known_values(N, kv) ==
    [i \in Idx(N) |-> [j \in Idx(N) |->
        IF << i, j >> \in DOMAIN kv /\ 1 <= kv[<< i, j >>] /\ kv[<< i, j >>] <= N
        THEN kv[<< i, j >>] ELSE Unknown]]

\* lines 226-243
update_constraints_fast(s, N, i, j, value) ==
    [s EXCEPT
       !.row_used[i] = @ \cup {value - 1},
       !.col_used[j] = @ \cup {value - 1},
       !.row_possible[i] =
           [v \in Idx(N) |-> IF v = value - 1 THEN @[v] \cap {j} ELSE @[v] \ {j}],
       !.col_possible[j] =
           [v \in Idx(N) |-> IF v = value - 1 THEN @[v] \cap {i} ELSE @[v] \ {i}]]

\* lines 78-98: every filled cell (i, j) with value v sets bit v - 1 in
\* row_used[i] and col_used[j], narrows row_possible[i][v - 1] to column j
\* and col_possible[j][v - 1] to row i, and clears bit j (bit i) in the masks
\* of every other value of that row (column).  The updates are |= and &=,
\* so the loop's result is the union, respectively the meet, over the cells.
init_bitmasks(s, N) ==
    LET filled(i, j) == s.square[i][j] # Unknown
        val(i, j) == s.square[i][j] - 1
        keeps(i, j, v, pos, bit) == filled(i, j) => ((val(i, j) = v) <=> (bit = pos))
    IN  [s EXCEPT
           !.row_used = [i \in Idx(N) |->
               @[i] \cup {val(i, j) : j \in {c \in Idx(N) : filled(i, c)}}],
           !.col_used = [j \in Idx(N) |->
               @[j] \cup {val(i, j) : i \in {r \in Idx(N) : filled(r, j)}}],
           !.row_possible = [i \in Idx(N) |-> [v \in Idx(N) |->
               {bit \in @[i][v] : \A j \in Idx(N) : keeps(i, j, v, j, bit)}]],
           !.col_possible = [j \in Idx(N) |-> [v \in Idx(N) |->
               {bit \in @[j][v] : \A i \in Idx(N) : keeps(i, j, v, i, bit)}]]]

\* lines 100-106 raise (IndexError, or ValueError for a negative shift) as soon
\* as a cell outside the grid carries a value in 1..size
wrong_values_raise(N, kw) ==
    \E c \in DOMAIN kw : c \notin Cells(N) /\ \E value \in kw[c] : 1 <= value /\ value <= N

\* lines 100-106 left out: no possibility bit is cleared
apply_wrong_values_skipped(s, N, kw) == s

\* lines 100-106 on the cells of the grid
apply_wrong_values(s, N, kw) ==
    [s EXCEPT
       !.row_possible = [i \in Idx(N) |-> [v \in Idx(N) |->
           s.row_possible[i][v] \
               {j \in Idx(N) : << i, j >> \in DOMAIN kw /\ (v + 1) \in kw[<< i, j >>]}]],
       !.col_possible = [j \in Idx(N) |-> [v \in Idx(N) |->
           s.col_possible[j][v] \
               {i \in Idx(N) : << i, j >> \in DOMAIN kw /\ (v + 1) \in kw[<< i, j >>]}]]]

popcount(x) == Cardinality(x)
find_single_bit_position(mask) == Min(mask)

\* lines 145-170: the candidates of a cell, ascending, 1-based
get_available_values_fast(s, N, i, j) ==
    IF s.square[i][j] # Unknown THEN << >>
    ELSE SetToSeq({v + 1 : v \in
            {w \in full_mask(N) \ (s.row_used[i] \cup s.col_used[j]) :
                j \in s.row_possible[i][w] /\ i \in s.col_possible[j][w]}})

place(s, N, i, j, value) ==
    update_constraints_fast([s EXCEPT !.square[i][j] = value], N, i, j, value)

\* lines 181-193: for v in range(size) in row i; acc = [s, changed, total, failed]
RECURSIVE propagate_row(_, _, _, _)
propagate_row(acc, N, i, v) ==
    IF v = N THEN acc
    ELSE LET possible_mask == acc.s.row_possible[i][v]
             hit == /\ v \notin acc.s.row_used[i]
                    /\ possible_mask # {}
                    /\ popcount(possible_mask) = 1
                    /\ acc.s.square[i][find_single_bit_position(possible_mask)] = Unknown
         IN  IF hit
             THEN propagate_row(
                      [acc EXCEPT
                         !.s = place(acc.s, N, i, find_single_bit_position(possible_mask), v + 1),
                         !.changed = TRUE,
                         !.total = @ + 1],
                      N, i, v + 1)
             ELSE propagate_row(acc, N, i, v + 1)

\* lines 180-193: hidden singles in rows; failed is only ever set by the cell
\* stage (line 215), an accumulator that carries it is handed on as it is
RECURSIVE propagate_rows(_, _, _)
propagate_rows(acc, N, i) ==
    IF i = N THEN acc
    ELSE LET r == propagate_row(acc, N, i, 0)
         IN  IF r.failed THEN r ELSE propagate_rows(r, N, i + 1)

\* lines 196-208: for v in range(size) in column j
RECURSIVE propagate_col(_, _, _, _)
propagate_col(acc, N, j, v) ==
    IF v = N THEN acc
    ELSE LET possible_mask == acc.s.col_possible[j][v]
             hit == /\ v \notin acc.s.col_used[j]
                    /\ possible_mask # {}
                    /\ popcount(possible_mask) = 1
                    /\ acc.s.square[find_single_bit_position(possible_mask)][j] = Unknown
         IN  IF hit
             THEN propagate_col(
                      [acc EXCEPT
                         !.s = place(acc.s, N, find_single_bit_position(possible_mask), j, v + 1),
                         !.changed = TRUE,
                         !.total = @ + 1],
                      N, j, v + 1)
             ELSE propagate_col(acc, N, j, v + 1)

\* lines 195-208: hidden singles in columns
RECURSIVE propagate_cols(_, _, _)
propagate_cols(acc, N, j) ==
    IF j = N THEN acc
    ELSE LET r == propagate_col(acc, N, j, 0)
         IN  IF r.failed THEN r ELSE propagate_cols(r, N, j + 1)

\* lines 212-222: for j in range(size) in row i; a cell without candidates
\* ends the whole call
RECURSIVE propagate_cells_row(_, _, _, _)
propagate_cells_row(acc, N, i, j) ==
    IF j = N THEN acc
    ELSE LET candidates == get_available_values_fast(acc.s, N, i, j)
         IN  IF acc.s.square[i][j] # Unknown THEN propagate_cells_row(acc, N, i, j + 1)
             ELSE IF Len(candidates) = 1
             THEN propagate_cells_row(
                      [acc EXCEPT !.s = place(acc.s, N, i, j, candidates[1]),
                                  !.changed = TRUE,
                                  !.total = @ + 1],
                      N, i, j + 1)
             ELSE IF Len(candidates) = 0
             THEN [acc EXCEPT !.failed = TRUE]
             ELSE propagate_cells_row(acc, N, i, j + 1)

\* lines 210-222: naked singles
RECURSIVE propagate_cells(_, _, _)
propagate_cells(acc, N, i) ==
    IF i = N THEN acc
    ELSE LET r == propagate_cells_row(acc, N, i, 0)
         IN  IF r.failed THEN r ELSE propagate_cells(r, N, i + 1)

\* lines 177-222: one turn of the while loop
propagate_pass(s, N, total) ==
    propagate_cells(
        propagate_cols(
            propagate_rows([s |-> s, changed |-> FALSE, total |-> total, failed |-> FALSE],
                           N, 0),
            N, 0),
        N, 0)

\* lines 172-224: [ok |-> FALSE] stands for "return False", otherwise
\* total is the number of placements; s is the state the call leaves behind
RECURSIVE propagate_from(_, _, _)
propagate_from(s, N, total) ==
    LET acc == propagate_pass(s, N, total) IN
    IF acc.failed THEN [ok |-> FALSE, s |-> acc.s, total |-> acc.total]
    ELSE IF acc.changed THEN propagate_from(acc.s, N, acc.total)
    ELSE [ok |-> TRUE, s |-> acc.s, total |-> acc.total]

propagate_constraints(s, N) == propagate_from(s, N, 0)

\* lines 245-265
is_valid_state(s, N) ==
    /\ \A i \in Idx(N), j \in Idx(N) :
          s.square[i][j] = Unknown => get_available_values_fast(s, N, i, j) # << >>
    /\ \A i \in Idx(N), v \in Idx(N) :
          ~(v \notin s.row_used[i] /\ s.row_possible[i][v] = {})
    /\ \A j \in Idx(N), v \in Idx(N) :
          ~(v \notin s.col_used[j] /\ s.col_possible[j][v] = {})

\* lines 267-280
is_valid_latin_square(sq, N) ==
    /\ \A i \in Idx(N) : Cardinality({sq[i][j] : j \in Idx(N)}) = N
    /\ \A j \in Idx(N) : Cardinality({sq[i][j] : i \in Idx(N)}) = N

\* lines 350-352 and 438
empty_cells(sq, N) == Cardinality({c \in Cells(N) : sq[c[1]][c[2]] = Unknown})

\* lines 288-301: for j in range(size) in row i; acc = [best_cell, min_choices,
\* returned], returned once line 295 or 301 has left the function
RECURSIVE find_most_constrained_row(_, _, _, _, _)
find_most_constrained_row(s, N, acc, i, j) ==
    IF j = N THEN acc
    ELSE LET choices == Len(get_available_values_fast(s, N, i, j))
             here == Some(<< i, j >>)
         IN  IF s.square[i][j] # Unknown THEN find_most_constrained_row(s, N, acc, i, j + 1)
             ELSE IF choices = 0
             THEN [best_cell |-> here, min_choices |-> 0, returned |-> TRUE]
             ELSE IF choices < acc.min_choices
             THEN IF choices = 1
                  THEN [best_cell |-> here, min_choices |-> 1, returned |-> TRUE]
                  ELSE find_most_constrained_row(
                           s, N, [best_cell |-> here, min_choices |-> choices,
                                  returned |-> FALSE], i, j + 1)
             ELSE find_most_constrained_row(s, N, acc, i, j + 1)

\* lines 287-303: for i in range(size): ...
RECURSIVE find_most_constrained_from(_, _, _, _)
find_most_constrained_from(s, N, acc, i) ==
    IF i = N THEN acc
    ELSE LET r == find_most_constrained_row(s, N, acc, i, 0)
         IN  IF r.returned THEN r ELSE find_most_constrained_from(s, N, r, i + 1)

\* the comparison of lines 296-300 left out: the first empty cell is taken
find_most_constrained_cell_first_empty(s, N) ==
    LET empties == {c \in Cells(N) : s.square[c[1]][c[2]] = Unknown}
        first == CHOOSE c \in empties :
                     \A d \in empties : c[1] < d[1] \/ (c[1] = d[1] /\ c[2] <= d[2])
    IN  IF empties = {}
        THEN [best_cell |-> NoneVal, min_choices |-> N + 1, returned |-> FALSE]
        ELSE [best_cell |-> Some(first),
              min_choices |-> Len(get_available_values_fast(s, N, first[1], first[2])),
              returned |-> FALSE]

find_most_constrained_cell(s, N) ==
    find_most_constrained_from(
        s, N, [best_cell |-> NoneVal, min_choices |-> N + 1, returned |-> FALSE], 0)

\* lines 379-393
constraint_score(s, N, i, j, value) ==
    Cardinality({k \in Idx(N) : k # j /\ s.square[i][k] = Unknown
                                /\ k \in s.row_possible[i][value - 1]})
    + Cardinality({k \in Idx(N) : k # i /\ s.square[k][j] = Unknown
                                  /\ k \in s.col_possible[j][value - 1]})

\* line 395: list.sort(key=...) is stable; insert x after the entries whose
\* score is not larger
RECURSIVE insert_sorted(_, _, _, _, _, _)
insert_sorted(sorted, x, s, N, i, j) ==
    IF sorted = << >> THEN << x >>
    ELSE IF constraint_score(s, N, i, j, x) < constraint_score(s, N, i, j, Head(sorted))
    THEN << x >> \o sorted
    ELSE << Head(sorted) >> \o insert_sorted(Tail(sorted), x, s, N, i, j)

RECURSIVE sort_candidates(_, _, _, _, _)
sort_candidates(cands, s, N, i, j) ==
    IF cands = << >> THEN << >>
    ELSE insert_sorted(
             sort_candidates(SubSeq(cands, 1, Len(cands) - 1), s, N, i, j),
             cands[Len(cands)], s, N, i, j)


\* the column loop (lines 423-426) left out
has_duplicates_rows_only(sq, N) ==
    \E i \in Idx(N) : \E j1 \in Idx(N), j2 \in Idx(N) :
        j1 # j2 /\ sq[i][j1] # Unknown /\ sq[i][j1] = sq[i][j2]

\* lines 417-426: a value placed twice in a row or in a column
has_duplicates(sq, N) ==
    \/ \E i \in Idx(N) : \E j1 \in Idx(N), j2 \in Idx(N) :
          j1 # j2 /\ sq[i][j1] # Unknown /\ sq[i][j1] = sq[i][j2]
    \/ \E j \in Idx(N) : \E i1 \in Idx(N), i2 \in Idx(N) :
          i1 # i2 /\ sq[i1][j] # Unknown /\ sq[i1][j] = sq[i2][j]

(***************************************************************************)
(* The program state.                                                      *)
(***************************************************************************)
VARIABLES
    size, known_values, known_wrong_values, max_solutions,  \* arguments of the call
    square, row_used, col_used, row_possible, col_possible, \* shared solver arrays
    solutions, branches,                                    \* accumulated results
    stack,      \* the backtrack() frames that are inside their for loop
    pc,         \* where the solver call stands
    ret,        \* what the call handed back to its caller
    expired,    \* TRUE once TimeoutError was raised in this call
    gen,        \* the locals of the running random generator call
    sim,        \* the locals of the running simulate_game call
    disc,       \* the locals of the running find_single_solution_puzzles call
    util,       \* a direct call of a function of utils.py: its arguments and result
    heur,       \* the locals of the running solve_sudodle_via_human_heuristics call
    pool        \* the locals of the running run_multiple_simulations_in_parallel call

solver_vars == << size, known_values, known_wrong_values, max_solutions,
                  square, row_used, col_used, row_possible, col_possible,
                  solutions, branches, stack, pc, ret, expired >>

side_vars == << util, heur, pool >>

caller_vars == << gen, sim, disc, side_vars >>

vars == << solver_vars, caller_vars >>

State ==
    [ square |-> square, row_used |-> row_used, col_used |-> col_used,
      row_possible |-> row_possible, col_possible |-> col_possible ]

SetState(s) ==
    /\ square' = s.square
    /\ row_used' = s.row_used
    /\ col_used' = s.col_used
    /\ row_possible' = s.row_possible
    /\ col_possible' = s.col_possible

Pending == [kind |-> "pending", solutions |-> << >>, branches |-> << >>]
Returned(sols, brs) == [kind |-> "returned", solutions |-> sols, branches |-> brs]
Raised == [kind |-> "raised", solutions |-> << >>, branches |-> << >>]

args_unchanged == UNCHANGED << size, known_values, known_wrong_values, max_solutions >>

\* the solver is entered with fresh locals (lines 56-60)
EnterSolver(N, kv, kw, maxsol) ==
    /\ size' = N
    /\ known_values' = kv
    /\ known_wrong_values' = kw
    /\ max_solutions' = maxsol
    /\ SetState(EmptyState(N))
    /\ solutions' = << >>
    /\ branches' = << >>
    /\ stack' = << >>
    /\ pc' = "start"
    /\ ret' = Pending
    /\ expired' = FALSE

\* lines 56-445: everything before the first backtrack() call
Call ==
    /\ pc = "start"
    /\ LET s0 == [EmptyState(size) EXCEPT !.square = fill_known_values(size, known_values)]
           s1 == init_bitmasks(s0, size)
           s2 == apply_wrong_values(s1, size, known_wrong_values)
           p  == propagate_constraints(s2, size)
       IN  IF wrong_values_raise(size, known_wrong_values)
           THEN /\ SetState(s1)
                /\ ret' = Raised
                /\ pc' = "done"
           ELSE IF has_duplicates(s2.square, size)
           THEN /\ SetState(s2)
                /\ ret' = Returned(<< >>, << >>)
                /\ pc' = "done"
           ELSE IF ~p.ok \/ ~is_valid_state(p.s, size)
           THEN /\ SetState(p.s)
                /\ ret' = Returned(<< >>, << >>)
                /\ pc' = "done"
           ELSE IF empty_cells(p.s.square, size) = 0
           THEN /\ SetState(p.s)
                /\ ret' = IF is_valid_latin_square(p.s.square, size)
                          THEN Returned(<< p.s.square >>, << >>)
                          ELSE Returned(<< >>, << >>)
                /\ pc' = "done"
           ELSE /\ SetState(p.s)
                /\ ret' = ret
                /\ pc' = "backtrack"
    /\ UNCHANGED << solutions, branches, stack, expired >>
    /\ args_unchanged
    /\ UNCHANGED caller_vars

reached_max == max_solutions # NoneVal /\ Len(solutions) >= max_solutions.val

\* lines 340-395: one backtrack() frame from its entry to its for loop
Backtrack ==
    /\ pc = "backtrack"
    /\ LET p == propagate_constraints(State, size)
           m == find_most_constrained_cell(p.s, size)
           cell == m.best_cell.val
           cands == get_available_values_fast(p.s, size, cell[1], cell[2])
       IN  IF reached_max
           THEN /\ pc' = "return"
                /\ UNCHANGED << square, row_used, col_used, row_possible, col_possible,
                                solutions, branches, stack >>
           ELSE IF ~p.ok
           THEN /\ SetState(p.s)
                /\ pc' = "return"
                /\ UNCHANGED << solutions, branches, stack >>
           ELSE IF empty_cells(p.s.square, size) = 0
           THEN /\ SetState(p.s)
                /\ solutions' = IF is_valid_latin_square(p.s.square, size)
                                THEN Append(solutions, p.s.square) ELSE solutions
                /\ pc' = "return"
                /\ UNCHANGED << branches, stack >>
           ELSE /\ SetState(p.s)
                /\ branches' = IF m.min_choices > 1
                               THEN Append(branches, m.min_choices) ELSE branches
                /\ IF m.best_cell = NoneVal
                   THEN /\ solutions' = IF is_valid_latin_square(p.s.square, size)
                                        THEN Append(solutions, p.s.square) ELSE solutions
                        /\ pc' = "return"
                        /\ stack' = stack
                   ELSE IF m.min_choices = 0
                   THEN /\ pc' = "return"
                        /\ UNCHANGED << solutions, stack >>
                   ELSE /\ stack' = Append(stack,
                               [ cell |-> cell,
                                 candidates |-> sort_candidates(cands, p.s, size,
                                                    cell[1], cell[2]),
                                 current_state |-> NoneVal ])
                        /\ pc' = "loop"
                        /\ solutions' = solutions
    /\ UNCHANGED << ret, expired >>
    /\ args_unchanged
    /\ UNCHANGED caller_vars

\* the except clause of lines 451-455 left out: TimeoutError leaves the call
timeout_result_uncaught(sols, brs) == Raised

\* lines 451-455: what the except clause returns
timeout_result(sols, brs) == Returned(sols, brs)

\* lines 336-338 and 451-455: the deadline has passed at the entry of a frame;
\* TimeoutError unwinds every frame and the call returns what it has
Timeout ==
    /\ pc = "backtrack"
    /\ disc.pc = "solving" => disc.deadlines < MaxDeadlines
    /\ expired' = TRUE
    /\ stack' = << >>
    /\ ret' = timeout_result(solutions, branches)
    /\ pc' = "done"
    /\ UNCHANGED << square, row_used, col_used, row_possible, col_possible,
                    solutions, branches >>
    /\ args_unchanged
    /\ disc' = IF disc.pc = "solving" THEN [disc EXCEPT !.deadlines = @ + 1] ELSE disc
    /\ UNCHANGED << gen, sim, side_vars >>

Top == stack[Len(stack)]
Pop == SubSeq(stack, 1, Len(stack) - 1)

\* lines 305-317: a copy of the grid and of the four bitmask arrays
save_state(s) ==
    [ square |-> s.square, row_used |-> s.row_used, col_used |-> s.col_used,
      row_possible |-> s.row_possible, col_possible |-> s.col_possible ]

\* the grid loop of lines 323-325 left out: only the bitmask arrays come back
restore_state_bitmasks_only(s, state) ==
    [s EXCEPT !.row_used = state.row_used, !.col_used = state.col_used,
              !.row_possible = state.row_possible,
              !.col_possible = state.col_possible]

\* lines 319-333: every entry of the five arrays is written back
restore_state(s, state) ==
    [s EXCEPT !.square = state.square,
              !.row_used = state.row_used, !.col_used = state.col_used,
              !.row_possible = state.row_possible,
              !.col_possible = state.col_possible]

\* lines 398-415: the for loop takes its next candidate
TryCandidate ==
    /\ pc = "loop"
    /\ IF Top.candidates = << >> \/ reached_max
       THEN /\ stack' = Pop
            /\ pc' = "return"
            /\ UNCHANGED << square, row_used, col_used, row_possible, col_possible >>
       ELSE LET i == Top.cell[1]
                j == Top.cell[2]
                value == Head(Top.candidates)
                current_state == save_state(State)
                placed == place(State, size, i, j, value)
            IN  IF is_valid_state(placed, size)
                THEN /\ SetState(placed)
                     /\ stack' = [stack EXCEPT ![Len(stack)].current_state = Some(current_state)]
                     /\ pc' = "backtrack"
                ELSE /\ SetState(restore_state(placed, current_state))
                     /\ stack' = [stack EXCEPT ![Len(stack)].candidates = Tail(@)]
                     /\ pc' = "loop"
    /\ UNCHANGED << solutions, branches, ret, expired >>
    /\ args_unchanged
    /\ UNCHANGED caller_vars

\* line 415: the child frame has returned; restore_state (lines 319-333)
ChildReturns ==
    /\ pc = "return"
    /\ stack # << >>
    /\ SetState(restore_state(State, Top.current_state.val))
    /\ stack' = [stack EXCEPT ![Len(stack)].candidates = Tail(@),
                              ![Len(stack)].current_state = NoneVal]
    /\ pc' = "loop"
    /\ UNCHANGED << solutions, branches, ret, expired >>
    /\ args_unchanged
    /\ UNCHANGED caller_vars

\* line 450: the outermost backtrack() has returned
Finish ==
    /\ pc = "return"
    /\ stack = << >>
    /\ ret' = Returned(solutions, branches)
    /\ pc' = "done"
    /\ UNCHANGED << square, row_used, col_used, row_possible, col_possible,
                    solutions, branches, stack, expired >>
    /\ args_unchanged
    /\ UNCHANGED caller_vars

SolverStep == Call \/ Backtrack \/ Timeout \/ TryCandidate \/ ChildReturns \/ Finish

(***************************************************************************)
(* generate_random_latin_square.py: the randomized backtracking generator, *)
(* its retry wrapper and the intercalate-flip sampler.  The generator's    *)
(* locals are the fields of gen.  rng.shuffle is modelled by drawing the   *)
(* next candidate of a frame among the ones not tried yet, rng.sample by   *)
(* drawing an ordered pair of distinct indices.                            *)
(***************************************************************************)
BurnInFactor == 50
MaxBurnIn == 2           \* intercalate steps that are followed one by one
FlipSize == 4            \* grid size whose squares have 2x2 blocks with and without an intercalate
GenSizes == Sizes \cup {FlipSize}

EmptyGrid(N) == [i \in Idx(N) |-> [j \in Idx(N) |-> Unknown]]
NoBits(N) == [i \in Idx(N) |-> {}]

GenPending == [kind |-> "pending", val |-> << >>]
GenSquare(sq) == [kind |-> "square", val |-> sq]
GenNone == [kind |-> "none", val |-> << >>]
GenRaised(error) == [kind |-> error, val |-> << >>]

GenIdle ==
    [ pc |-> "idle", N |-> 0, mode |-> "idle", has_timeout |-> FALSE,
      burn_in_steps |-> 0, steps |-> 0, flips |-> 0, square |-> << >>, row_used |-> << >>,
      col_used |-> << >>, stack |-> << >>, result |-> GenPending,
      seed |-> NoneVal, stream |-> << >>, drawn |-> << >>, previous |-> << >> ]

\* lines 36-42 (and 203-207 for the sampler): the locals at the first backtrack(0)
GenLocals(N, mode, has_timeout, burn_in_steps) ==
    [ pc |-> "backtrack", N |-> N, mode |-> mode, has_timeout |-> has_timeout,
      burn_in_steps |-> IF burn_in_steps = NoneVal THEN BurnInFactor * (N * N)
                        ELSE burn_in_steps.val,
      steps |-> 0, flips |-> 0, square |-> EmptyGrid(N), row_used |-> NoBits(N),
      col_used |-> NoBits(N), stack |-> << >>, result |-> GenPending,
      seed |-> NoneVal, stream |-> << >>, drawn |-> << >>, previous |-> << >> ]

\* line 35: rng = random.Random(seed).  With a seed the generator draws from
\* one fixed stream: stream holds the draws of it that a call has shown so
\* far, drawn the draws of the running call, previous the draws of the call
\* that timed out last
GenSeeded(g, seed) == [g EXCEPT !.seed = seed]

\* the candidate that comes next out of the shuffle of line 70
NextDraw(g, v) ==
    (g.seed # NoneVal /\ Len(g.drawn) < Len(g.stream)) => v = g.stream[Len(g.drawn) + 1]

Draw(g, v) ==
    IF g.seed = NoneVal THEN g
    ELSE [g EXCEPT !.drawn = Append(@, v),
                   !.stream = IF Len(g.drawn) < Len(@) THEN @ ELSE Append(@, v)]

\* seed=seed of line 96 left out: the next call draws from a fresh stream
retry_reseeded(g) ==
    [g EXCEPT !.stack = << >>, !.square = EmptyGrid(g.N),
              !.row_used = NoBits(g.N), !.col_used = NoBits(g.N),
              !.stream = << >>, !.drawn = << >>, !.previous = g.drawn]

\* lines 94-98: TimeoutError is caught and the generator is called again
\* with the same N, seed and timeout, on fresh locals (lines 35-42)
retry(g) ==
    [g EXCEPT !.stack = << >>, !.square = EmptyGrid(g.N),
              !.row_used = NoBits(g.N), !.col_used = NoBits(g.N),
              !.drawn = << >>, !.previous = g.drawn]

\* the shuffles and samples that are followed: every one on the grids of
\* GenSizes, and on a larger grid the ones that lead to HiddenTarget
HiddenTarget ==
    << << 6, 1, 3, 5, 2, 4 >>, << 5, 6, 2, 4, 3, 1 >>, << 4, 5, 1, 2, 6, 3 >>,
       << 1, 2, 4, 3, 5, 6 >>, << 3, 4, 5, 6, 1, 2 >>, << 2, 3, 6, 1, 4, 5 >> >>

ShuffleFollowed(N, i, j, v) == N \in GenSizes \/ v = HiddenTarget[i + 1][j + 1]

SampleFollowed(N, a, b) == N \in GenSizes \/ << a, b >> = << 0, 1 >>

\* the undo of lines 83-84 forgotten
Toggle_kept(mask, b) == mask

\* ^= bit (lines 83-84)
Toggle(mask, b) == IF b \in mask THEN mask \ {b} ELSE mask \cup {b}

\* lines 79-80 and 89-90: True travels up through every frame; the sampler
\* goes on with its burn-in (lines 204-209)
GenFound(g) ==
    IF g.mode = "uniform"
    THEN [g EXCEPT !.stack = << >>, !.pc = "burn"]
    ELSE [g EXCEPT !.stack = << >>, !.pc = "done", !.result = GenSquare(g.square)]

\* lines 60 and 87: False goes to the frame above (line 79) or, from
\* backtrack(0), to line 90
GenReturnFalse(g, stk) ==
    IF stk = << >>
    THEN [g EXCEPT !.stack = stk, !.pc = "done", !.result = GenNone]
    ELSE [g EXCEPT !.stack = stk, !.pc = "undo"]

\* lines 48-70: a backtrack(cell) frame from its entry to its for loop
GenBacktrack ==
    /\ gen.pc = "backtrack"
    /\ LET N == gen.N
           cell == Len(gen.stack)
           i == cell \div N
           j == cell % N
           avail_mask == full_mask(N) \ (gen.row_used[i] \cup gen.col_used[j])
       IN  gen' = IF cell = N * N THEN GenFound(gen)
                  ELSE IF avail_mask = {} THEN GenReturnFalse(gen, gen.stack)
                  ELSE [gen EXCEPT !.stack = Append(@,
                                      [ candidates |-> {b + 1 : b \in avail_mask},
                                        v |-> Unknown ]),
                                   !.pc = "loop"]
    /\ UNCHANGED << solver_vars, sim, disc, side_vars >>

\* lines 45-47 and 94-98: the deadline has passed at the entry of a frame; the
\* retry wrapper catches TimeoutError and calls the generator again
GenTimeout ==
    /\ gen.pc = "backtrack"
    /\ gen.has_timeout
    /\ gen' = IF gen.mode = "backtracked"
              THEN [gen EXCEPT !.stack = << >>, !.pc = "done",
                               !.result = GenRaised("TimeoutError")]
              ELSE retry(gen)
    /\ UNCHANGED << solver_vars, sim, disc, side_vars >>

\* lines 73-79: the for loop places its next candidate and calls backtrack(cell + 1)
GenTry ==
    /\ gen.pc = "loop"
    /\ LET N == gen.N
           d == Len(gen.stack)
           i == (d - 1) \div N
           j == (d - 1) % N
           frame == gen.stack[d]
       IN  IF frame.candidates = {}
           THEN gen' = GenReturnFalse(gen, SubSeq(gen.stack, 1, d - 1))
           ELSE \E v \in frame.candidates :
                  /\ ShuffleFollowed(N, i, j, v)
                  /\ NextDraw(gen, v)
                  /\ gen' = [Draw(gen, v) EXCEPT !.square[i][j] = v,
                                        !.row_used[i] = @ \cup {v - 1},
                                        !.col_used[j] = @ \cup {v - 1},
                                        !.stack[d] = [ candidates |-> frame.candidates \ {v},
                                                       v |-> v ],
                                        !.pc = "backtrack"]
    /\ UNCHANGED << solver_vars, sim, disc, side_vars >>

\* lines 82-85: backtrack(cell + 1) returned False, the placement is undone
GenUndo ==
    /\ gen.pc = "undo"
    /\ LET N == gen.N
           d == Len(gen.stack)
           i == (d - 1) \div N
           j == (d - 1) % N
           v == gen.stack[d].v
       IN  gen' = [gen EXCEPT !.square[i][j] = Unknown,
                              !.row_used[i] = Toggle(@, v - 1),
                              !.col_used[j] = Toggle(@, v - 1),
                              !.pc = "loop"]
    /\ UNCHANGED << solver_vars, sim, disc, side_vars >>

\* line 164 forgotten: only the row r1 of the intercalate is rewritten
intercalate_flip_one_row(L, r1, r2, c1, c2) ==
    LET a == L[r1][c1]
        b == L[r1][c2]
    IN  IF a = b THEN L
        ELSE IF L[r2][c1] = b /\ L[r2][c2] = a
        THEN [L EXCEPT ![r1][c1] = b, ![r1][c2] = a]
        ELSE L

\* lines 155-165: the flip of _random_intercalate_step for sampled r1, r2, c1, c2
intercalate_flip(L, r1, r2, c1, c2) ==
    LET a == L[r1][c1]
        b == L[r1][c2]
    IN  IF a = b THEN L
        ELSE IF L[r2][c1] = b /\ L[r2][c2] = a
        THEN [L EXCEPT ![r1][c1] = b, ![r1][c2] = a, ![r2][c1] = a, ![r2][c2] = b]
        ELSE L

\* lines 209-211 with 151-165: one iteration of the burn-in loop; rng.sample
\* raises ValueError when range(N) has fewer than two elements; flips counts
\* the steps that returned True (line 165)
GenBurnStep ==
    /\ gen.pc = "burn"
    /\ gen.steps < gen.burn_in_steps
    /\ gen.steps < MaxBurnIn
    /\ IF gen.N < 2
       THEN gen' = [gen EXCEPT !.pc = "done", !.result = GenRaised("ValueError")]
       ELSE \E r1 \in Idx(gen.N), r2 \in Idx(gen.N), c1 \in Idx(gen.N), c2 \in Idx(gen.N) :
              /\ r1 # r2 /\ c1 # c2
              /\ SampleFollowed(gen.N, r1, r2) /\ SampleFollowed(gen.N, c1, c2)
              /\ gen' = [gen EXCEPT !.square = intercalate_flip(@, r1, r2, c1, c2),
                                    !.steps = @ + 1,
                                    !.flips = IF intercalate_flip(gen.square, r1, r2, c1, c2) # gen.square
                                              THEN @ + 1 ELSE @]
    /\ UNCHANGED << solver_vars, sim, disc, side_vars >>

\* line 214: the burn-in loop is over
GenReturn ==
    /\ gen.pc = "burn"
    /\ gen.steps >= gen.burn_in_steps \/ gen.steps >= MaxBurnIn
    /\ gen' = [gen EXCEPT !.pc = "done", !.result = GenSquare(gen.square)]
    /\ UNCHANGED << solver_vars, sim, disc, side_vars >>

GenStep == GenBacktrack \/ GenTimeout \/ GenTry \/ GenUndo \/ GenBurnStep \/ GenReturn

(***************************************************************************)
(* simulate_game.py: one game of at most five guesses against a sampled    *)
(* hidden square.  The locals of simulate_game are the fields of sim.      *)
(***************************************************************************)
Rounds == 5

cyclic_latin_square(N) == [i \in Idx(N) |-> [j \in Idx(N) |-> ((i + j) % N) + 1]]

\* line 90 with expected_square[i][j] in place of square[i][j]: the wrong
\* triples carry the value of the solution
compare_squares_expected_value(sq, expected_square) ==
    LET N == Cardinality(DOMAIN sq)
        same(idx) == sq[idx \div N][idx % N] = expected_square[idx \div N][idx % N]
        right == {idx \in 0 .. (N * N - 1) : same(idx)}
        wrong == {idx \in 0 .. (N * N - 1) : ~same(idx)}
        nth(S, k) == CHOOSE idx \in S : Cardinality({u \in S : u < idx}) = k - 1
    IN  [ right_values |-> [k \in 1 .. Cardinality(right) |->
              << nth(right, k) \div N, nth(right, k) % N,
                 sq[nth(right, k) \div N][nth(right, k) % N] >>],
          wrong_values |-> [k \in 1 .. Cardinality(wrong) |->
              << nth(wrong, k) \div N, nth(wrong, k) % N,
                 expected_square[nth(wrong, k) \div N][nth(wrong, k) % N] >>] ]

\* compare_squares: the (i, j, value) triples of the matching and of the other
\* cells, each list in row-major order
compare_squares(sq, expected_square) ==
    LET N == Cardinality(DOMAIN sq)
        triple(idx) == << idx \div N, idx % N, sq[idx \div N][idx % N] >>
        same(idx) == sq[idx \div N][idx % N] = expected_square[idx \div N][idx % N]
        right == {idx \in 0 .. (N * N - 1) : same(idx)}
        wrong == {idx \in 0 .. (N * N - 1) : ~same(idx)}
        nth(S, k) == CHOOSE idx \in S : Cardinality({u \in S : u < idx}) = k - 1
    IN  [ right_values |-> [k \in 1 .. Cardinality(right) |-> triple(nth(right, k))],
          wrong_values |-> [k \in 1 .. Cardinality(wrong) |-> triple(nth(wrong, k))] ]

\* lines 103-104: known_values[(i, j)] = value for every right triple
record_right_values(kv, right_values) ==
    LET new == {<< right_values[k][1], right_values[k][2] >> : k \in DOMAIN right_values}
        val(c) == (CHOOSE k \in DOMAIN right_values :
                      << right_values[k][1], right_values[k][2] >> = c)
    IN  [c \in DOMAIN kv \cup new |->
            IF c \in new THEN right_values[val(c)][3] ELSE kv[c]]

\* lines 105-108: every wrong value joins the list of its cell
record_wrong_values(kw, wrong_values) ==
    LET new == {<< wrong_values[k][1], wrong_values[k][2] >> : k \in DOMAIN wrong_values}
        val(c) == (CHOOSE k \in DOMAIN wrong_values :
                      << wrong_values[k][1], wrong_values[k][2] >> = c)
    IN  [c \in DOMAIN kw \cup new |->
            IF c \in new
            THEN (IF c \in DOMAIN kw THEN kw[c] ELSE {}) \cup {wrong_values[val(c)][3]}
            ELSE kw[c]]

\* line 102: history_of_known_values[1:]
victory_trace_whole(history) == history

victory_trace(history) == SubSeq(history, 2, Len(history))

SimPending == [kind |-> "pending", val |-> << >>]
SimList(h) == [kind |-> "list", val |-> h]
SimNone == [kind |-> "none", val |-> << >>]
SimRaised(error) == [kind |-> error, val |-> << >>]

SimIdle ==
    [ pc |-> "idle", first_guess |-> << >>, N |-> 0, solution |-> << >>,
      guess |-> << >>, known_values |-> << >>, known_wrong_values |-> << >>,
      history_of_known_values |-> << >>, round |-> 0, feedback |-> << >>,
      result |-> SimPending, exit |-> "none" ]

\* the call simulate_game(first_guess) before its first line
SimLocals(first_guess) ==
    [ SimIdle EXCEPT !.pc = "start", !.first_guess = first_guess ]

\* lines 88-89: N = len(first_guess) and the call of uniform_random_latin_square(N)
SimStart ==
    /\ sim.pc = "start"
    /\ LET N == Cardinality(DOMAIN sim.first_guess)
       IN  /\ sim' = [sim EXCEPT !.N = N, !.pc = "sampling"]
           /\ gen' = GenLocals(N, "uniform", TRUE, NoneVal)
    /\ UNCHANGED << solver_vars, disc, side_vars >>

\* lines 89-95: the sampler has returned (or raised); the game starts
SimSampled ==
    /\ sim.pc = "sampling"
    /\ gen.pc = "done"
    /\ sim' = IF gen.result.kind = "square"
              THEN [sim EXCEPT !.solution = gen.result.val, !.guess = sim.first_guess,
                               !.round = 1, !.pc = "round"]
              ELSE [sim EXCEPT !.result = SimRaised(gen.result.kind), !.exit = "raised",
                               !.pc = "done"]
    /\ UNCHANGED << solver_vars, gen, disc, side_vars >>

\* lines 97-113: one round up to the call of complete_latin_square_backtrack
SimRound ==
    /\ sim.pc = "round"
    /\ LET cmp == compare_squares(sim.guess, sim.solution)
           history == Append(sim.history_of_known_values,
                             Cardinality(DOMAIN sim.known_values))
           kv == record_right_values(sim.known_values, cmp.right_values)
           kw == record_wrong_values(sim.known_wrong_values, cmp.wrong_values)
           seen == Append(sim.feedback, cmp)
       IN  IF cmp.wrong_values = << >>
           THEN /\ sim' = [sim EXCEPT !.history_of_known_values = history,
                                      !.feedback = seen,
                                      !.result = SimList(victory_trace(history)),
                                      !.exit = "victory", !.pc = "done"]
                /\ UNCHANGED solver_vars
           ELSE /\ sim' = [sim EXCEPT !.history_of_known_values = history,
                                      !.feedback = seen,
                                      !.known_values = kv, !.known_wrong_values = kw,
                                      !.pc = "solving"]
                /\ EnterSolver(sim.N, kv, kw, Some(1))
    /\ UNCHANGED << gen, disc, side_vars >>

\* lines 111-114 with 484-487 of the solver file: the wrapper hands back the
\* first solution or None; None ends the game, and so does the end of the loop
SimSolved ==
    /\ sim.pc = "solving"
    /\ pc = "done"
    /\ sim' = IF ret.kind = "raised"
              THEN [sim EXCEPT !.result = SimRaised("IndexError"), !.exit = "raised",
                               !.pc = "done"]
              ELSE IF ret.solutions = << >>
              THEN [sim EXCEPT !.result = SimNone, !.exit = "failure", !.pc = "done"]
              ELSE IF sim.round = Rounds
              THEN [sim EXCEPT !.guess = ret.solutions[1], !.result = SimNone,
                               !.exit = "exhausted", !.pc = "done"]
              ELSE [sim EXCEPT !.guess = ret.solutions[1], !.round = @ + 1,
                               !.pc = "round"]
    /\ UNCHANGED << solver_vars, gen, disc, side_vars >>

SimStep == SimStart \/ SimSampled \/ SimRound \/ SimSolved

(***************************************************************************)
(* simulate_game.py, lines 117-126: run_multiple_simulations_in_parallel.  *)
(* Every submitted call of simulate_game runs in a worker process of its   *)
(* own and shares nothing with the others, so the bodies of the tasks are  *)
(* run through sim one after the other, in any order the pool allows: the  *)
(* order in which they are run is the order in which they complete.  The   *)
(* locals of the harness are the fields of pool.                           *)
(***************************************************************************)
PoolPending == [kind |-> "pending", val |-> << >>]
PoolList(l) == [kind |-> "list", val |-> l]
PoolRaised(error) == [kind |-> error, val |-> << >>]

PoolIdle ==
    [ pc |-> "idle", first_guesses |-> << >>, n_processes |-> 0,
      futures |-> << >>, first |-> {}, arrivals |-> << >>,
      results |-> << >>, origin |-> << >>, outcome |-> PoolPending ]

\* the call run_multiple_simulations_in_parallel(first_guesses, n_processes)
\* before its first line
PoolLocals(first_guesses, n_processes) ==
    [ PoolIdle EXCEPT !.pc = "start", !.first_guesses = first_guesses,
                      !.n_processes = n_processes ]

\* a Future of executor.submit: slow records that the task ran for more than
\* the 2 seconds named in line 124
PendingFuture == [state |-> "pending", result |-> SimPending, slow |-> FALSE]

Finished(futures) == {k \in 1 .. Len(futures) : futures[k].state = "finished"}

\* lines 118-121: one future per first guess, in the order of the list
PoolSubmit ==
    /\ pool.pc = "start"
    /\ pool' = [pool EXCEPT !.futures = [k \in 1 .. Len(pool.first_guesses) |->
                                             PendingFuture],
                            !.pc = "submitted"]
    /\ UNCHANGED << solver_vars, gen, sim, disc, util, heur >>

\* the work queue of the executor is first in, first out: task k is taken by
\* a worker once fewer than n_processes of the tasks before it are unfinished
PoolTaskStart ==
    /\ pool.pc \in {"submitted", "collect", "shutdown"}
    /\ sim.pc \in {"idle", "done"}
    /\ \A k \in 1 .. Len(pool.futures) : pool.futures[k].state # "running"
    /\ \E k \in 1 .. Len(pool.futures) :
         /\ pool.futures[k].state = "pending"
         /\ Cardinality({j \in 1 .. (k - 1) : pool.futures[j].state # "finished"})
               < pool.n_processes
         /\ pool' = [pool EXCEPT !.futures[k].state = "running"]
         /\ sim' = SimLocals(pool.first_guesses[k])
    /\ UNCHANGED << solver_vars, gen, disc, util, heur >>

\* the task returned or raised: its future holds the value or the exception,
\* and as_completed, once it is waiting, is told in the order of completion
PoolTaskDone ==
    /\ sim.pc = "done"
    /\ \E k \in 1 .. Len(pool.futures) :
       \E slow \in BOOLEAN :
         /\ pool.futures[k].state = "running"
         /\ pool' = [pool EXCEPT
                !.futures[k] = [state |-> "finished", result |-> sim.result,
                                slow |-> slow],
                !.arrivals = IF pool.pc = "collect" THEN Append(@, k) ELSE @]
    /\ sim' = SimIdle
    /\ UNCHANGED << solver_vars, gen, disc, util, heur >>

\* line 123: as_completed first yields the futures that are finished when it
\* is called, in the order of a set
PoolAsCompleted ==
    /\ pool.pc = "submitted"
    /\ pool' = [pool EXCEPT !.first = Finished(pool.futures), !.pc = "collect"]
    /\ UNCHANGED << solver_vars, gen, sim, disc, util, heur >>

\* line 124: future.result(timeout) hands back the value of a finished
\* future, raises the exception the task raised, and raises TimeoutError when
\* the future is not finished timeout seconds after the call
future_result(future, timeout) ==
    IF future.state = "finished" THEN future.result
    ELSE SimRaised("TimeoutError")

\* lines 124-125 for the future k that as_completed yielded
collect_result(p, k) ==
    LET result == future_result(p.futures[k], 2)
    IN  IF result.kind \in {"list", "none"}
        THEN [p EXCEPT !.results = Append(@, result), !.origin = Append(@, k)]
        ELSE [p EXCEPT !.outcome = PoolRaised(result.kind), !.pc = "shutdown"]

\* lines 123-126: one turn of the for loop, or the return after the last one
PoolCollect ==
    /\ pool.pc = "collect"
    /\ IF pool.first # {}
       THEN \E k \in pool.first :
              pool' = collect_result([pool EXCEPT !.first = @ \ {k}], k)
       ELSE IF pool.arrivals # << >>
       THEN pool' = collect_result([pool EXCEPT !.arrivals = Tail(@)],
                                   Head(pool.arrivals))
       ELSE /\ Len(pool.origin) = Len(pool.futures)
            /\ pool' = [pool EXCEPT !.outcome = PoolList(pool.results),
                                    !.pc = "shutdown"]
    /\ UNCHANGED << solver_vars, gen, sim, disc, util, heur >>

\* line 118: leaving the with block is executor.shutdown(wait=True), which
\* lets every submitted task run to its end
PoolExit ==
    /\ pool.pc = "shutdown"
    /\ Finished(pool.futures) = 1 .. Len(pool.futures)
    /\ pool' = [pool EXCEPT !.pc = "done"]
    /\ UNCHANGED << solver_vars, gen, sim, disc, util, heur >>

PoolStep ==
    PoolSubmit \/ PoolTaskStart \/ PoolTaskDone \/ PoolAsCompleted \/ PoolCollect
    \/ PoolExit

(***************************************************************************)
(* find_single_solution_puzzles.py: the puzzle discovery over the subsets  *)
(* of n_well_placed cells of a base grid.  The locals of the call are the  *)
(* fields of disc.                                                         *)
(***************************************************************************)
Max(S) == CHOOSE x \in S : \A y \in S : x >= y

\* the order of Python tuples (i, j)
TileLess(a, b) == a[1] < b[1] \/ (a[1] = b[1] /\ a[2] < b[2])

\* tuple(sorted(S)) for a set S of tiles
RECURSIVE sorted_tiles(_)
sorted_tiles(S) ==
    IF S = {} THEN << >>
    ELSE LET m == CHOOSE x \in S : \A y \in S : x = y \/ TileLess(x, y)
         IN  << m >> \o sorted_tiles(S \ {m})

\* the order of Python tuples of tiles of one length
TupleLess(s, t) ==
    \E k \in 1 .. Len(s) :
        /\ \A h \in 1 .. (k - 1) : s[h] = t[h]
        /\ TileLess(s[k], t[k])

\* the min of lines 103-108 forgotten: the sorted tiles as they are
standardize_tile_tuple_sorted_only(correct_tiles) == sorted_tiles(Range(correct_tiles))

\* utils.py: min of the sorted tiles and the sorted transposed tiles
standardize_tile_tuple(correct_tiles) ==
    LET a == sorted_tiles(Range(correct_tiles))
        b == sorted_tiles({<< c[2], c[1] >> : c \in Range(correct_tiles)})
    IN  IF TupleLess(b, a) THEN b ELSE a

\* the form with the grid size that find_single_solution_puzzles calls; the
\* size plays no part in the result
standardize_tile_tuple_N(N, selected_tiles) == standardize_tile_tuple(selected_tiles)

\* itertools.combinations: the first index tuple, None when there is none
first_combination(n, k) ==
    IF k > n THEN NoneVal ELSE Some([h \in 1 .. k |-> h - 1])

\* itertools.combinations: the index tuple after indices, None after the last
next_combination(indices, n) ==
    LET k == Len(indices)
        movable == {h \in 1 .. k : indices[h] # (h - 1) + n - k}
    IN  IF movable = {} THEN NoneVal
        ELSE LET h0 == Max(movable)
             IN  Some([h \in 1 .. k |->
                          IF h < h0 THEN indices[h] ELSE indices[h0] + 1 + (h - h0)])

\* line 21: tile_coordinates[t]
tile_coordinate(N, t) == << t \div N, t % N >>

DiscPending == [kind |-> "pending", val |-> << >>]
DiscList(l) == [kind |-> "list", val |-> l]
DiscRaised == [kind |-> "raised", val |-> << >>]

DiscIdle ==
    [ pc |-> "idle", grid |-> << >>, N |-> 0, n_well_placed |-> 0,
      indices |-> NoneVal, standard_tile_tuples |-> {}, selected_tiles |-> << >>,
      selected_solutions |-> << >>, deadlines |-> 0, result |-> DiscPending ]

\* lines 19-23: the locals when the for loop asks for its first combination
DiscLocals(grid, n_well_placed) ==
    LET N == Cardinality(DOMAIN grid)
    IN  [ DiscIdle EXCEPT !.pc = "next", !.grid = grid, !.N = N,
                          !.n_well_placed = n_well_placed,
                          !.indices = first_combination(N * N, n_well_placed) ]

\* the else branch of lines 33-34 left out: no cell forbids its base value
known_wrong_values_none(grid, N, tiles) == << >>

\* lines 29-34: the base value of every cell that is not selected is forbidden
known_wrong_values_of(grid, N, tiles) ==
    [c \in Cells(N) \ tiles |-> {grid[c[1]][c[2]]}]

\* lines 23-37 and 41: the loop takes a combination, skips it when its standard
\* form was seen, else encodes it and calls the solver; after the last one the
\* function returns
DiscNext ==
    /\ disc.pc = "next"
    /\ IF disc.indices = NoneVal
       THEN /\ disc' = [disc EXCEPT !.pc = "done",
                                    !.result = DiscList(disc.selected_solutions)]
            /\ UNCHANGED solver_vars
       ELSE LET N == disc.N
                ind == disc.indices.val
                selected_tiles == [h \in 1 .. Len(ind) |-> tile_coordinate(N, ind[h])]
                standardized_tiles == standardize_tile_tuple_N(N, selected_tiles)
                tiles == Range(selected_tiles)
                kv == [c \in tiles |-> disc.grid[c[1]][c[2]]]
                kw == known_wrong_values_of(disc.grid, N, tiles)
            IN  IF standardized_tiles \in disc.standard_tile_tuples
                THEN /\ disc' = [disc EXCEPT !.selected_tiles = selected_tiles,
                                             !.indices = next_combination(ind, N * N)]
                     /\ UNCHANGED solver_vars
                ELSE /\ disc' = [disc EXCEPT !.selected_tiles = selected_tiles,
                                             !.standard_tile_tuples = @ \cup {standardized_tiles},
                                             !.pc = "solving"]
                     /\ EnterSolver(N, kv, kw, Some(2))
    /\ UNCHANGED << gen, sim, side_vars >>

\* the test of line 39 taken for the cap of line 36: len(solutions) == 2
single_solution_at_cap(solutions_found) == Len(solutions_found) = 2

\* line 39: len(solutions) == 1
single_solution(solutions_found) == Len(solutions_found) = 1

\* lines 38-40: the solver has returned; a single solution makes a puzzle
DiscSolved ==
    /\ disc.pc = "solving"
    /\ pc = "done"
    /\ disc' = IF ret.kind = "raised"
               THEN [disc EXCEPT !.pc = "done", !.result = DiscRaised]
               ELSE [disc EXCEPT
                        !.selected_solutions =
                            IF single_solution(ret.solutions)
                            THEN Append(@, [ tiles |-> disc.selected_tiles,
                                             solution |-> ret.solutions[1] ])
                            ELSE @,
                        !.indices = next_combination(disc.indices.val, disc.N * disc.N),
                        !.pc = "next"]
    /\ UNCHANGED << solver_vars, gen, sim, side_vars >>

DiscStep == DiscNext \/ DiscSolved

(***************************************************************************)
(* utils.py: direct calls of standardize_tile_tuple and compare_squares.   *)
(* util holds the name of the called function, its arguments and, once the *)
(* call has returned, its result.                                          *)
(***************************************************************************)
MaxTiles == 3            \* tiles of a tuple passed to standardize_tile_tuple
TileGrid == 3            \* the tiles are cells of a grid of this size
CompareSize == 2         \* size of the grids passed to compare_squares

UtilIdle == [pc |-> "idle", fn |-> "none", args |-> << >>, result |-> << >>]
UtilCall(fn, args) == [pc |-> "call", fn |-> fn, args |-> args, result |-> << >>]

\* the tuples of at most MaxTiles distinct tiles, in every order
TileTuples ==
    UNION {{t \in [1 .. k -> Cells(TileGrid)] : \A a \in 1 .. k, b \in 1 .. k : t[a] = t[b] => a = b} :
              k \in 0 .. MaxTiles}

\* the grids of size 1 .. CompareSize with cells in 1 .. CompareSize + 1
AnyGrids(N) == [Idx(N) -> [Idx(N) -> 1 .. (CompareSize + 1)]]

\* the function returns
UtilReturn ==
    /\ util.pc = "call"
    /\ util' = [util EXCEPT
                   !.pc = "done",
                   !.result = IF util.fn = "standardize_tile_tuple"
                              THEN standardize_tile_tuple(util.args[1])
                              ELSE compare_squares(util.args[1], util.args[2])]
    /\ UNCHANGED << solver_vars, gen, sim, disc, heur, pool >>

(***************************************************************************)
(* solve_sudodle_via_human_heuristics.py: the solver by domains and        *)
(* unique positions.  heur holds the locals of the running call; the       *)
(* fields domains, row_pos, col_pos and assigned are the search state that *)
(* backtrack() saves and restores.                                         *)
(***************************************************************************)
Done == -1               \* the marker "done" that lines 52-53 add to a set of positions

HeurPending == [kind |-> "pending", solutions |-> << >>, n_branches |-> 0]
HeurReturned(sols, n) == [kind |-> "returned", solutions |-> sols, n_branches |-> n]
HeurRaised == [kind |-> "raised", solutions |-> << >>, n_branches |-> 0]

HeurIdle ==
    [ pc |-> "idle", N |-> 0, known_values |-> << >>, known_incorrect |-> << >>,
      max_solutions |-> 0, domains |-> << >>, row_pos |-> << >>, col_pos |-> << >>,
      assigned |-> {}, solutions |-> << >>, branch_count |-> 0, stack |-> << >>,
      returned |-> FALSE, result |-> HeurPending ]

\* the call as it is entered
HeurLocals(N, kv, ki, maxsol) ==
    [ HeurIdle EXCEPT !.pc = "start", !.N = N, !.known_values = kv,
                      !.known_incorrect = ki,
                      !.max_solutions = maxsol ]

\* the first cell of a set in row-major order, the order of the dict domains
FirstCell(S) == CHOOSE c \in S : \A d \in S : c = d \/ TileLess(c, d)

\* lines 52-53 forgotten: the value is not marked "done" in its row and column
eliminate_cell_not_marked(h, N, i, j, v) ==
    IF << i, j >> \in h.assigned
    THEN [h EXCEPT !.domains[<< i, j >>] = {v}]
    ELSE [h EXCEPT
            !.assigned = @ \cup {<< i, j >>},
            !.domains[<< i, j >>] = {v},
            !.row_pos = [r \in Idx(N) |-> [vv \in 1 .. N |->
                (@[r][vv] \ (IF r # i /\ vv = v THEN {j} ELSE {}))
                    \ (IF r = i THEN {j} ELSE {})]],
            !.col_pos = [c \in Idx(N) |-> [vv \in 1 .. N |->
                (@[c][vv] \ (IF c # j /\ vv = v THEN {i} ELSE {}))
                    \ (IF c = j THEN {i} ELSE {})]]]

\* lines 42-80
eliminate_cell(h, N, i, j, v) ==
    IF << i, j >> \in h.assigned
    THEN [h EXCEPT !.domains[<< i, j >>] = {v}]
    ELSE [h EXCEPT
            !.assigned = @ \cup {<< i, j >>},
            !.domains[<< i, j >>] = {v},
            !.row_pos = [r \in Idx(N) |-> [vv \in 1 .. N |->
                ((IF r = i /\ vv = v THEN @[r][vv] \cup {Done} ELSE @[r][vv])
                    \ (IF r # i /\ vv = v THEN {j} ELSE {}))
                    \ (IF r = i THEN {j} ELSE {})]],
            !.col_pos = [c \in Idx(N) |-> [vv \in 1 .. N |->
                ((IF c = j /\ vv = v THEN @[c][vv] \cup {Done} ELSE @[c][vv])
                    \ (IF c # j /\ vv = v THEN {i} ELSE {}))
                    \ (IF c = j THEN {i} ELSE {})]]]

\* lines 83-85 and 36-37, 52-53, 93-94: a key outside range(N) x 1..N raises KeyError
heur_raises(N, kv, ki) ==
    \/ \E c \in DOMAIN kv :
          c \notin Cells(N) \/ kv[c] \notin 1 .. N
    \/ \E c \in DOMAIN ki :
          ki[c] # {} /\ (c \notin Cells(N) \/ ~(ki[c] \subseteq 1 .. N))

\* lines 83-85: eliminate_cell for the known values that are left to apply
RECURSIVE apply_known_values(_, _, _, _)
apply_known_values(h, N, kv, todo) ==
    IF todo = {} THEN h
    ELSE LET c == FirstCell(todo)
         IN  apply_known_values(eliminate_cell(h, N, c[1], c[2], kv[c]),
                                N, kv, todo \ {c})

\* lines 86-94
apply_known_incorrect(h, N, ki) ==
    [h EXCEPT
       !.row_pos = [r \in Idx(N) |-> [v \in 1 .. N |->
           @[r][v] \ {j \in Idx(N) : << r, j >> \in DOMAIN ki
                                      /\ v \in ki[<< r, j >>]}]],
       !.col_pos = [c \in Idx(N) |-> [v \in 1 .. N |->
           @[c][v] \ {i \in Idx(N) : << i, c >> \in DOMAIN ki
                                      /\ v \in ki[<< i, c >>]}]]]

\* lines 25-40 and 82-94: the search state before the first backtrack()
initial_search_state(N, kv, ki) ==
    LET h0 == [ domains |-> [c \in Cells(N) |->
                                IF c \in DOMAIN kv THEN {kv[c]}
                                ELSE (1 .. N) \ (IF c \in DOMAIN ki
                                                 THEN ki[c] ELSE {})],
                row_pos |-> [r \in Idx(N) |-> [v \in 1 .. N |-> Idx(N)]],
                col_pos |-> [c \in Idx(N) |-> [v \in 1 .. N |-> Idx(N)]],
                assigned |-> {} ]
    IN  apply_known_incorrect(
            apply_known_values(h0, N, kv, DOMAIN kv),
            N, ki)

\* the first (line, value) pair of the scan of lines 121-138 (145-161) that
\* ends the scan: a value that is not done and has no position, or a single
\* position whose cell is not assigned
ScanEvents(h, N, pos, by_row) ==
    LET cell_of(line, p) == IF by_row THEN << line, p >> ELSE << p, line >>
    IN  {rv \in Idx(N) \X (1 .. N) :
            /\ Done \notin pos[rv[1]][rv[2]]
            /\ \/ pos[rv[1]][rv[2]] = {}
               \/ /\ Cardinality(pos[rv[1]][rv[2]]) = 1
                  /\ cell_of(rv[1], Min(pos[rv[1]][rv[2]])) \notin h.assigned}


\* lines 99-165: forced moves until nothing changes (ok) or a contradiction (~ok)
RECURSIVE propagate(_, _)
propagate(h, N) ==
    LET singles == {c \in Cells(N) : Cardinality(h.domains[c]) = 1 /\ c \notin h.assigned}
        rows == ScanEvents(h, N, h.row_pos, TRUE)
        cols == ScanEvents(h, N, h.col_pos, FALSE)
    IN  IF \E c \in DOMAIN h.domains : h.domains[c] = {}
        THEN [ok |-> FALSE, h |-> h]
        ELSE IF singles # {}
        THEN LET c == FirstCell(singles)
             IN  propagate(eliminate_cell(h, N, c[1], c[2], Min(h.domains[c])), N)
        ELSE IF rows # {}
        THEN LET rv == FirstCell(rows)
                 poss == h.row_pos[rv[1]][rv[2]]
             IN  IF poss = {} THEN [ok |-> FALSE, h |-> h]
                 ELSE propagate(eliminate_cell(h, N, rv[1], Min(poss), rv[2]), N)
        ELSE IF cols # {}
        THEN LET cv == FirstCell(cols)
                 poss == h.col_pos[cv[1]][cv[2]]
             IN  IF poss = {} THEN [ok |-> FALSE, h |-> h]
                 ELSE propagate(eliminate_cell(h, N, Min(poss), cv[1], cv[2]), N)
        ELSE [ok |-> TRUE, h |-> h]

\* the search state held in heur
SearchState ==
    [ domains |-> heur.domains, row_pos |-> heur.row_pos, col_pos |-> heur.col_pos,
      assigned |-> heur.assigned ]

\* lines 196-203: the search state is put back
WithSearchState(g, h) ==
    [g EXCEPT !.domains = h.domains, !.row_pos = h.row_pos, !.col_pos = h.col_pos,
              !.assigned = h.assigned]

\* lines 25-97: the call sets up its search state, or raises KeyError
HeurCall ==
    /\ heur.pc = "start"
    /\ heur' = IF heur_raises(heur.N, heur.known_values, heur.known_incorrect)
               THEN [heur EXCEPT !.pc = "done", !.result = HeurRaised]
               ELSE [WithSearchState(heur,
                        initial_search_state(heur.N, heur.known_values, heur.known_incorrect))
                       EXCEPT !.pc = "backtrack"]
    /\ UNCHANGED << solver_vars, gen, sim, disc, util, pool >>

\* the cells of line 180-182 and the pick of line 183: the first cell, in
\* row-major order, among those with the smallest domain of more than one value
branching_cell(h, N) ==
    LET choices == {c \in Cells(N) : Cardinality(h.domains[c]) > 1}
        smallest == {c \in choices :
                        \A d \in choices : Cardinality(h.domains[c]) <= Cardinality(h.domains[d])}
    IN  FirstCell(smallest)

\* lines 169-192: a backtrack() frame from its entry to its for loop
HeurBacktrack ==
    /\ heur.pc = "backtrack"
    /\ LET N == heur.N
           p == propagate(SearchState, N)
           g == WithSearchState(heur, p.h)
           sol == [i \in Idx(N) |-> [j \in Idx(N) |-> Min(p.h.domains[<< i, j >>])]]
           cell == branching_cell(p.h, N)
       IN  heur' =
             IF ~p.ok
             THEN [g EXCEPT !.pc = "return", !.returned = FALSE]
             ELSE IF \A c \in Cells(N) : Cardinality(p.h.domains[c]) = 1
             THEN [g EXCEPT !.solutions = Append(@, sol),
                            !.pc = "return",
                            !.returned = (Len(heur.solutions) + 1 >= heur.max_solutions)]
             ELSE [g EXCEPT !.branch_count = @ + 1,
                            !.stack = Append(@, [ saved |-> p.h, cell |-> cell,
                                                  opts |-> p.h.domains[cell] ]),
                            !.pc = "loop"]
    /\ UNCHANGED << solver_vars, gen, sim, disc, util, pool >>

\* lines 194-211: the for loop restores the snapshot, takes its next option
\* (in the iteration order of a Python set, which is any order here) and calls
\* backtrack(); after the last option the frame returns False
HeurTry ==
    /\ heur.pc = "loop"
    /\ LET d == Len(heur.stack)
           frame == heur.stack[d]
       IN  IF frame.opts = {}
           THEN heur' = [heur EXCEPT !.stack = SubSeq(@, 1, d - 1),
                                     !.pc = "return", !.returned = FALSE]
           ELSE \E v \in frame.opts :
                  heur' = [WithSearchState(heur,
                              eliminate_cell(frame.saved, heur.N,
                                             frame.cell[1], frame.cell[2], v))
                             EXCEPT !.stack[d].opts = @ \ {v},
                                    !.pc = "backtrack"]
    /\ UNCHANGED << solver_vars, gen, sim, disc, util, pool >>

\* lines 208-209 and 213-214: a backtrack() call has returned; True goes up
\* through the frame above, False lets its loop go on, and the outermost
\* return ends the call
HeurReturn ==
    /\ heur.pc = "return"
    /\ LET d == Len(heur.stack)
       IN  heur' = IF d = 0
                   THEN [heur EXCEPT !.pc = "done",
                                     !.result = HeurReturned(heur.solutions, heur.branch_count)]
                   ELSE IF heur.returned
                   THEN [heur EXCEPT !.stack = SubSeq(@, 1, d - 1)]
                   ELSE [heur EXCEPT !.pc = "loop"]
    /\ UNCHANGED << solver_vars, gen, sim, disc, util, pool >>

HeurStep == HeurCall \/ HeurBacktrack \/ HeurTry \/ HeurReturn

(***************************************************************************)
(* Arguments a caller may pass.  An entry is a (cell, value) pair for      *)
(* known_values and a (cell, set of values) pair for known_wrong_values;   *)
(* besides the entries inside the grid there is one cell outside the grid  *)
(* and one value outside 1..N of each kind.                                *)
(***************************************************************************)
OutsideCell(N) == << N, 0 >>

KnownEntries(N) ==
    {<< c, v >> : c \in Cells(N), v \in 1 .. N}
        \cup {<< OutsideCell(N), 1 >>, << << 0, 0 >>, N + 1 >>}

WrongEntries(N) ==
    {<< c, F >> : c \in Cells(N), F \in (SUBSET (1 .. N)) \ {{}}}
        \cup {<< OutsideCell(N), {1} >>, << << 0, 0 >>, {N + 1} >>}

OneKey(E) == \A e1 \in E, e2 \in E : e1[1] = e2[1] => e1 = e2

AsDict(E) == [c \in {e[1] : e \in E} |-> (CHOOSE e \in E : e[1] = c)[2]]

RECURSIVE SmallSubsets(_, _)
SmallSubsets(S, n) ==
    IF n = 0 THEN {{}}
    ELSE LET R == SmallSubsets(S, n - 1) IN R \cup {T \cup {x} : T \in R, x \in S}

ClueSets(N) ==
    {kw \in UNION {SmallSubsets(KnownEntries(N), k) \X SmallSubsets(WrongEntries(N), IF MaxClues - k < MaxWrong THEN MaxClues - k ELSE MaxWrong) :
                      k \in 0 .. MaxClues} :
        OneKey(kw[1]) /\ OneKey(kw[2])}

\* two equal known values in one row or one column, nothing else: on a grid
\* of ClashSize cells a side every empty cell keeps a candidate, so only the
\* validation of lines 417-426 tells that such a call has no solution
ClashSets(N) ==
    {<< {<< c1, v >>, << c2, v >>}, {} >> :
        << c1, c2, v >> \in
            {x \in Cells(N) \X Cells(N) \X (1 .. N) :
                x[1] # x[2] /\ (x[1][1] = x[2][1] \/ x[1][2] = x[2][2])}}

\* the call of the docstring example (lines 34-40)
DocExample ==
    << {<< << 0, 0 >>, 1 >>, << << 1, 1 >>, 2 >>}, {<< << 0, 1 >>, {1, 3} >>} >>

ExampleSets(N) == IF N = 3 THEN {DocExample} ELSE {}

InputSets(N) == (IF N \in Sizes THEN ClueSets(N) ELSE ClashSets(N)) \cup ExampleSets(N)

MaxSolutionsValues == {NoneVal} \cup {Some(k) : k \in 0 .. MaxMaxSolutions}

Init ==
    \E N \in Sizes \cup {ClashSize} :
      \E kw \in InputSets(N), maxsol \in MaxSolutionsValues :
        /\ size = N
        /\ known_values = AsDict(kw[1])
        /\ known_wrong_values = AsDict(kw[2])
        /\ max_solutions = maxsol
        /\ square = EmptyState(N).square
        /\ row_used = EmptyState(N).row_used
        /\ col_used = EmptyState(N).col_used
        /\ row_possible = EmptyState(N).row_possible
        /\ col_possible = EmptyState(N).col_possible
        /\ solutions = << >>
        /\ branches = << >>
        /\ stack = << >>
        /\ pc = "start"
        /\ ret = Pending
        /\ expired = FALSE
        /\ gen = GenIdle
        /\ sim = SimIdle
        /\ disc = DiscIdle
        /\ util = UtilIdle
        /\ heur = HeurIdle
        /\ pool = PoolIdle

Next == SolverStep

Spec == Init /\ [][Next]_vars

\* no solver call has been made yet
SolverIdle ==
    /\ size = 0
    /\ known_values = << >>
    /\ known_wrong_values = << >>
    /\ max_solutions = NoneVal
    /\ square = << >>
    /\ row_used = << >>
    /\ col_used = << >>
    /\ row_possible = << >>
    /\ col_possible = << >>
    /\ solutions = << >>
    /\ branches = << >>
    /\ stack = << >>
    /\ pc = "idle"
    /\ ret = Pending
    /\ expired = FALSE

(***************************************************************************)
(* Games: simulate_game on every Latin square of the explored sizes and on *)
(* one Latin square of the size of HiddenTarget.                           *)
(***************************************************************************)
LongGameGuess ==
    << << 5, 6, 2, 4, 1, 3 >>, << 4, 1, 3, 2, 5, 6 >>, << 6, 3, 5, 1, 4, 2 >>,
       << 2, 4, 6, 5, 3, 1 >>, << 1, 2, 4, 3, 6, 5 >>, << 3, 5, 1, 6, 2, 4 >> >>

\* the rows of a grid as the list of lists the program works on
Grid(rows) ==
    [i \in Idx(Len(rows)) |-> [j \in Idx(Len(rows)) |-> rows[i + 1][j + 1]]]

FirstGuesses == UNION {LatinSquares[N] : N \in Sizes} \cup {Grid(LongGameGuess)}

InitSim ==
    \E first_guess \in FirstGuesses :
        /\ sim = SimLocals(first_guess)
        /\ gen = GenIdle
        /\ disc = DiscIdle
        /\ util = UtilIdle
        /\ heur = HeurIdle
        /\ pool = PoolIdle
        /\ SolverIdle

NextSim == SimStep \/ GenStep \/ SolverStep

SpecSim == InitSim /\ [][NextSim]_vars

(***************************************************************************)
(* Harness calls: run_multiple_simulations_in_parallel on every list of up *)
(* to MaxTasks cyclic first guesses, with one worker and with several.     *)
(***************************************************************************)
MaxTasks == 2            \* first guesses handed to one call of the harness
MaxProcesses == 2        \* worker processes of the pool

PoolGuesses == {cyclic_latin_square(N) : N \in Sizes}

TaskLists == UNION {[1 .. n -> PoolGuesses] : n \in 0 .. MaxTasks}

InitPool ==
    \E first_guesses \in TaskLists :
    \E n_processes \in 1 .. MaxProcesses :
        /\ pool = PoolLocals(first_guesses, n_processes)
        /\ sim = SimIdle
        /\ gen = GenIdle
        /\ disc = DiscIdle
        /\ util = UtilIdle
        /\ heur = HeurIdle
        /\ SolverIdle

NextPool == PoolStep \/ SimStep \/ GenStep \/ SolverStep

SpecPool == InitPool /\ [][NextPool]_vars

(***************************************************************************)
(* Discoveries: find_single_solution_puzzles on every Latin square of the  *)
(* explored sizes, for every number of well placed tiles.                  *)
(***************************************************************************)
InitDiscover ==
    \E N \in Sizes :
      \E n_well_placed \in 0 .. (N * N + 1) :
      \E grid \in LatinSquares[N] :
        /\ disc = DiscLocals(grid, n_well_placed)
        /\ gen = GenIdle
        /\ sim = SimIdle
        /\ util = UtilIdle
        /\ heur = HeurIdle
        /\ pool = PoolIdle
        /\ SolverIdle

NextDiscover == DiscStep \/ SolverStep

SpecDiscover == InitDiscover /\ [][NextDiscover]_vars

(***************************************************************************)
(* The discovery of the puzzles with four well placed tiles on the cyclic  *)
(* square of order four.                                                   *)
(***************************************************************************)
InitDiscoverCyclic ==
    /\ disc = DiscLocals(cyclic_latin_square(4), 4)
    /\ gen = GenIdle
    /\ sim = SimIdle
    /\ util = UtilIdle
    /\ heur = HeurIdle
    /\ pool = PoolIdle
    /\ SolverIdle

SpecDiscoverCyclic == InitDiscoverCyclic /\ [][NextDiscover]_vars

(***************************************************************************)
(* Generators: backtracked_random_latin_square with and without a timeout, *)
(* and uniform_random_latin_square with its default and with a given       *)
(* number of burn-in steps, on the grids of the explored sizes.            *)
(***************************************************************************)
BurnInArguments == {NoneVal} \cup {Some(k) : k \in 0 .. MaxBurnIn}

(***************************************************************************)
(* The retry wrapper called on its own, with and without a seed; a step of *)
(* a running attempt is always taken in the end, the deadline may pass at  *)
(* any frame or never.                                                     *)
(***************************************************************************)
InitRetry ==
    \E N \in Sizes, seed \in {NoneVal, Some(0)} :
        /\ gen = GenSeeded(GenLocals(N, "retries", TRUE, Some(0)), seed)
        /\ sim = SimIdle
        /\ disc = DiscIdle
        /\ util = UtilIdle
        /\ heur = HeurIdle
        /\ pool = PoolIdle
        /\ SolverIdle

AttemptStep == GenBacktrack \/ GenTry \/ GenUndo

NextRetry == AttemptStep \/ GenTimeout

SpecRetry == InitRetry /\ [][NextRetry]_vars /\ WF_vars(AttemptStep)

InitGen ==
    /\ SolverIdle
    /\ sim = SimIdle
    /\ disc = DiscIdle
    /\ util = UtilIdle
    /\ heur = HeurIdle
    /\ pool = PoolIdle
    /\ \E N \in GenSizes :
          \/ \E has_timeout \in BOOLEAN :
                gen = GenLocals(N, "backtracked", has_timeout, NoneVal)
          \/ \E burn_in_steps \in BurnInArguments :
                gen = GenLocals(N, "uniform", TRUE, burn_in_steps)

NextGen == GenStep

SpecGen == InitGen /\ [][NextGen]_vars

(***************************************************************************)
(* The discovery of the puzzles with two well placed tiles on a Latin      *)
(* square of order four that is not its own transpose.                     *)
(***************************************************************************)
AsymmetricGrid ==
    << << 1, 2, 3, 4 >>, << 2, 3, 4, 1 >>, << 4, 1, 2, 3 >>, << 3, 4, 1, 2 >> >>

InitDiscoverAsymmetric ==
    /\ disc = DiscLocals(Grid(AsymmetricGrid), 2)
    /\ gen = GenIdle
    /\ sim = SimIdle
    /\ util = UtilIdle
    /\ heur = HeurIdle
    /\ pool = PoolIdle
    /\ SolverIdle

SpecDiscoverAsymmetric == InitDiscoverAsymmetric /\ [][NextDiscover]_vars

(***************************************************************************)
(* Direct calls of the functions of utils.py.                              *)
(***************************************************************************)
InitUtil ==
    /\ SolverIdle
    /\ gen = GenIdle
    /\ sim = SimIdle
    /\ disc = DiscIdle
    /\ heur = HeurIdle
    /\ pool = PoolIdle
    /\ \/ \E correct_tiles \in TileTuples :
             util = UtilCall("standardize_tile_tuple", << correct_tiles >>)
       \/ \E N \in 1 .. CompareSize :
             \E sq \in AnyGrids(N), expected_square \in AnyGrids(N) :
               util = UtilCall("compare_squares", << sq, expected_square >>)

NextUtil == UtilReturn

SpecUtil == InitUtil /\ [][NextUtil]_vars

(***************************************************************************)
(* Calls of solve_sudodle_via_human_heuristics: the small clue sets of the *)
(* solver calls, and the Sudodle encodings of a tile set on the cyclic grid,*)
(* with the base value forbidden on the other cells (the encoding of       *)
(* find_single_solution_puzzles) or on every cell (the encoding of         *)
(* score_puzzle_difficulty, lines 226-231).                                *)
(***************************************************************************)
TileEncoding(grid, N, tiles, everywhere) ==
    << [c \in tiles |-> grid[c[1]][c[2]]],
       [c \in (IF everywhere THEN Cells(N) ELSE Cells(N) \ tiles) |-> {grid[c[1]][c[2]]}] >>

HeurInputs(N) ==
    {<< AsDict(kw[1]), AsDict(kw[2]) >> : kw \in ClueSets(N)}
        \cup {TileEncoding(cyclic_latin_square(N), N, tiles, everywhere) :
                  tiles \in SUBSET Cells(N), everywhere \in BOOLEAN}

InitHeur ==
    /\ SolverIdle
    /\ gen = GenIdle
    /\ sim = SimIdle
    /\ disc = DiscIdle
    /\ util = UtilIdle
    /\ pool = PoolIdle
    /\ \E N \in Sizes :
          \E clues \in HeurInputs(N), maxsol \in 0 .. MaxMaxSolutions :
            heur = HeurLocals(N, clues[1], clues[2], maxsol)

NextHeur == HeurStep

SpecHeur == InitHeur /\ [][NextHeur]_vars


(***************************************************************************)
(* Vocabulary of the properties.                                           *)
(***************************************************************************)
\* the clues respect the data model: cells inside the grid, values in 1..N
InRangeClues ==
    /\ \A c \in DOMAIN known_values :
          c \in Cells(size) /\ known_values[c] \in 1 .. size
    /\ \A c \in DOMAIN known_wrong_values :
          c \in Cells(size) /\ known_wrong_values[c] \subseteq 1 .. size

\* a grid agrees with the clues of the call
SatisfiesClues(g) ==
    /\ \A c \in DOMAIN known_values : g[c[1]][c[2]] = known_values[c]
    /\ \A c \in DOMAIN known_wrong_values : g[c[1]][c[2]] \notin known_wrong_values[c]

\* C1: every element of the solutions list, while it is accumulated and when
\* it is returned (also after a timeout, and whatever the clues and
\* max_solutions are), is a complete grid whose rows and columns are
\* permutations of 1..N.
C1_SolutionsAreLatin ==
    /\ \A k \in 1 .. Len(solutions) : IsLatin(solutions[k], size)
    /\ \A k \in 1 .. Len(ret.solutions) : IsLatin(ret.solutions[k], size)

C1_Witness ==
    /\ pc = "done"
    /\ expired
    /\ size = 3
    /\ known_values # << >>
    /\ Len(ret.solutions) >= 2

\* C2: every returned solution agrees with every known_values entry and
\* avoids every value of every known_wrong_values entry, also when a cell
\* has an entry in both dicts.
C2_ClueConsistency ==
    (pc = "done" /\ InRangeClues) =>
        \A k \in 1 .. Len(ret.solutions) : SatisfiesClues(ret.solutions[k])

\* C3: with max_solutions = None and no timeout the call returns each Latin
\* square that satisfies the clues exactly once, and nothing else.
C3_ExactlyAllCompletions ==
    (pc = "done" /\ InRangeClues /\ max_solutions = NoneVal /\ ~expired) =>
        /\ ret.kind = "returned"
        /\ Range(ret.solutions) = {g \in LatinSquares[size] : SatisfiesClues(g)}
        /\ Cardinality(Range(ret.solutions)) = Len(ret.solutions)

\* C4: with max_solutions = k the returned list has at most k elements, on
\* every return path.
C4_SolutionCountBound ==
    (pc = "done" /\ max_solutions # NoneVal) => Len(ret.solutions) <= max_solutions.val

\* the Sudodle clue encoding of a tile set: a grid keeps the base value on the
\* tiles and differs from the base value on every other cell
SatisfiesEncoding(g, grid, tiles, N) ==
    \A c \in Cells(N) : (g[c[1]][c[2]] = grid[c[1]][c[2]]) <=> (c \in tiles)

ValidPuzzle(grid, tiles, N) ==
    Cardinality({g \in LatinSquares[N] : SatisfiesEncoding(g, grid, tiles, N)}) = 1

C6_ExhaustedReturnsHistory ==
    sim.exit = "exhausted" =>
        /\ sim.result = SimList(sim.history_of_known_values)
        /\ Len(sim.history_of_known_values) = Rounds
        /\ sim.result # SimNone

\* the cells that compare_squares reported right in the rounds 1..k
RightCellsUpTo(k) ==
    UNION {{<< t[1], t[2] >> : t \in Range(sim.feedback[h].right_values)} : h \in 1 .. k}

C8_OrderOneSucceeds ==
    LET one == [i \in Idx(1) |-> [j \in Idx(1) |-> 1]]
    IN  /\ gen.N = 1 /\ gen.pc = "done" => gen.result = GenSquare(one)
        /\ sim.N = 1 /\ sim.pc = "done" => sim.exit = "victory"
        /\ (size = 1 /\ pc = "done" /\ ~expired
                /\ known_values = << >> /\ known_wrong_values = << >>) =>
               ret = Returned(<< one >>, << >>)

\* C9: a clue outside the grid or outside 1..N makes the call end with an
\* error-valued result, not with an ordinary (solutions, branch_samples) pair.
C9_InvalidInputRejected ==
    (pc = "done" /\ ~InRangeClues) => ret.kind # "returned"

\* the known values put one value twice in a row or in a column
DuplicateKnownValue ==
    \E c1 \in DOMAIN known_values, c2 \in DOMAIN known_values :
        /\ c1 # c2
        /\ c1[1] = c2[1] \/ c1[2] = c2[2]
        /\ known_values[c1] = known_values[c2]

\* the arrays as the initialization (lines 56-106) leaves them
InitialState ==
    apply_wrong_values(
        init_bitmasks([EmptyState(size) EXCEPT !.square = fill_known_values(size, known_values)],
                      size),
        size, known_wrong_values)

\* the first propagation (lines 429-435) ends in a contradiction
PropagationContradiction ==
    LET p == propagate_constraints(InitialState, size)
    IN  ~p.ok \/ ~is_valid_state(p.s, size)

\* C10: for clues that respect the data model, a value placed twice in a row
\* or column by known_values, or a contradiction derived by the first
\* propagation, makes the call return ([], []) without raising.
C10_InconsistentCluesGiveEmpty ==
    (pc = "done" /\ InRangeClues /\ (DuplicateKnownValue \/ PropagationContradiction)) =>
        ret = Returned(<< >>, << >>)

C10_Witness ==
    /\ pc = "done"
    /\ InRangeClues
    /\ DuplicateKnownValue
    /\ size = ClashSize
    /\ \E c1 \in DOMAIN known_values, c2 \in DOMAIN known_values : c1[1] # c2[1]
    /\ ret = Returned(<< >>, << >>)

\* the other case of C10: no clash, the first propagation finds the contradiction
C10_WitnessPropagation ==
    /\ pc = "done"
    /\ InRangeClues
    /\ ~DuplicateKnownValue
    /\ PropagationContradiction
    /\ size = 3
    /\ ret = Returned(<< >>, << >>)

\* known_wrong_values forbids every value of 1..N at some cell of the grid
ForbidsEveryValue ==
    \E c \in DOMAIN known_wrong_values :
        c \in Cells(size) /\ (1 .. size) \subseteq known_wrong_values[c]

\* C11: when known_wrong_values forbids every value 1..N at some cell, the
\* call returns an empty solutions list, whatever the other clues are (a
\* known_values entry for that cell included).
C11_AllForbiddenGivesEmpty ==
    (pc = "done" /\ InRangeClues /\ ForbidsEveryValue) =>
        ret.kind = "returned" /\ ret.solutions = << >>

\* the call complete_all(3, {(0,0): 1, (1,1): 2}, {(0,1): [1,3]})
DocExampleCall ==
    /\ size = 3
    /\ known_values = AsDict(DocExample[1])
    /\ known_wrong_values = AsDict(DocExample[2])

C13_BacktrackedIsLatin ==
    (gen.mode = "backtracked" /\ gen.pc = "done" /\ gen.result.kind # "TimeoutError") =>
        /\ gen.result.kind = "square"
        /\ IsLatin(gen.result.val, gen.N)

C13_Witness ==
    /\ gen.mode = "backtracked"
    /\ gen.pc = "done"
    /\ gen.N = 3
    /\ gen.result.kind = "square"
    /\ gen.result.val # cyclic_latin_square(3)

\* the four cells of rows r1, r2 and columns c1, c2
FourCells(r1, r2, c1, c2) == {<< r1, c1 >>, << r1, c2 >>, << r2, c1 >>, << r2, c2 >>}

\* L2 is L with the intercalate [[a,b],[b,a]] of rows r1, r2 and columns
\* c1, c2 rewritten to [[b,a],[a,b]] and no other cell changed
IsIntercalateFlip(L, L2, N) ==
    \E r1 \in Idx(N), r2 \in Idx(N), c1 \in Idx(N), c2 \in Idx(N) :
        /\ r1 # r2 /\ c1 # c2
        /\ L[r1][c1] = L[r2][c2] /\ L[r1][c2] = L[r2][c1] /\ L[r1][c1] # L[r1][c2]
        /\ L2[r1][c1] = L[r1][c2] /\ L2[r1][c2] = L[r1][c1]
        /\ L2[r2][c1] = L[r1][c1] /\ L2[r2][c2] = L[r1][c2]
        /\ \A c \in Cells(N) \ FourCells(r1, r2, c1, c2) : L2[c[1]][c[2]] = L[c[1]][c[2]]

\* C14: every step of the burn-in chain starts from a Latin square and ends
\* in a Latin square, and it either leaves the square as it is or rewrites
\* exactly the four cells of an intercalate [[a,b],[b,a]] to [[b,a],[a,b]].
C14_FlipKeepsLatin ==
    [][(gen.pc = "burn" /\ gen'.pc = "burn") =>
          /\ IsLatin(gen.square, gen.N)
          /\ IsLatin(gen'.square, gen.N)
          /\ gen'.square = gen.square \/ IsIntercalateFlip(gen.square, gen'.square, gen.N)]_vars

C14_Witness ==
    /\ gen.pc = "done"
    /\ gen.result.kind = "square"
    /\ gen.N = FlipSize
    /\ gen.flips >= 1
    /\ gen.steps > gen.flips

\* transpose(S) as a tuple: every tile (i, j) of the tuple becomes (j, i)
TransposedTiles(tiles) == [k \in 1 .. Len(tiles) |-> << tiles[k][2], tiles[k][1] >>]

\* C15: the canonical form of a set of tiles is the canonical form of its
\* transpose: standardize_tile_tuple(S) = standardize_tile_tuple(transpose(S)).
C15_CanonicalTransposeInvariant ==
    (util.pc = "done" /\ util.fn = "standardize_tile_tuple") =>
        util.result = standardize_tile_tuple(TransposedTiles(util.args[1]))

C15_Witness ==
    /\ util.pc = "done"
    /\ util.fn = "standardize_tile_tuple"
    /\ Len(util.args[1]) = MaxTiles
    /\ util.result # sorted_tiles(Range(util.args[1]))

\* the cells on which two grids agree
AgreeingCells(sq, expected_square, N) ==
    {c \in Cells(N) : sq[c[1]][c[2]] = expected_square[c[1]][c[2]]}

\* C16: compare_squares partitions the N*N cells: right holds exactly the
\* triples (i, j, guess[i][j]) of the cells where guess and solution agree,
\* wrong exactly the triples of the other cells, each cell once, so that
\* |right| + |wrong| = N*N.
C16_ComparatorPartition ==
    (util.pc = "done" /\ util.fn = "compare_squares") =>
        LET guess == util.args[1]
            solution == util.args[2]
            N == Cardinality(DOMAIN guess)
            right == util.result.right_values
            wrong == util.result.wrong_values
            agree == AgreeingCells(guess, solution, N)
        IN  /\ Len(right) + Len(wrong) = N * N
            /\ Range(right) = {<< c[1], c[2], guess[c[1]][c[2]] >> : c \in agree}
            /\ Range(wrong) = {<< c[1], c[2], guess[c[1]][c[2]] >> : c \in Cells(N) \ agree}
            /\ Len(right) = Cardinality(agree)

\* the docstring example: guess [[1,2],[2,1]] against solution [[1,2],[2,3]]
C16_Witness ==
    /\ util.pc = "done"
    /\ util.fn = "compare_squares"
    /\ util.args = << Grid(<< << 1, 2 >>, << 2, 1 >> >>), Grid(<< << 1, 2 >>, << 2, 3 >> >>) >>
    /\ util.result.right_values = << << 0, 0, 1 >>, << 0, 1, 2 >>, << 1, 0, 2 >> >>
    /\ util.result.wrong_values = << << 1, 1, 1 >> >>

\* the clues of the heuristic solver's call respect the data model
HeurInRangeClues ==
    /\ \A c \in DOMAIN heur.known_values :
          c \in Cells(heur.N) /\ heur.known_values[c] \in 1 .. heur.N
    /\ \A c \in DOMAIN heur.known_incorrect :
          c \in Cells(heur.N) /\ heur.known_incorrect[c] \subseteq 1 .. heur.N

\* the Latin squares that agree with the clues of the heuristic solver's call
HeurCompletions ==
    {g \in LatinSquares[heur.N] :
        /\ \A c \in DOMAIN heur.known_values : g[c[1]][c[2]] = heur.known_values[c]
        /\ \A c \in DOMAIN heur.known_incorrect : g[c[1]][c[2]] \notin heur.known_incorrect[c]}

\* C17: on clues with exactly one Latin-square completion the heuristic
\* solver, called with max_solutions = 2, returns exactly one solution, and it
\* is that completion.
C17_HeuristicFindsUnique ==
    (heur.pc = "done" /\ heur.max_solutions = 2 /\ HeurInRangeClues
        /\ Cardinality(HeurCompletions) = 1) =>
        /\ heur.result.kind = "returned"
        /\ Len(heur.result.solutions) = 1
        /\ heur.result.solutions[1] \in HeurCompletions

C17_Witness ==
    /\ heur.pc = "done"
    /\ heur.max_solutions = 2
    /\ heur.N = 3
    /\ HeurInRangeClues
    /\ Cardinality(HeurCompletions) = 1
    /\ Cardinality(DOMAIN heur.known_values) < heur.N
    /\ Len(heur.result.solutions) = 1


\* the entry that stands for a task that ran out of time
TimeoutSentinel == [kind |-> "timeout", val |-> << >>]

\* C18: whatever the order in which the tasks complete, the harness returns a
\* list with exactly one entry per submitted task and does not fail, and the
\* entry of a task that ran longer than the per-task timeout is the timeout
\* sentinel.
C18_TimeoutSentinelPerTask ==
    pool.pc = "done" =>
        /\ pool.outcome.kind = "list"
        /\ Len(pool.outcome.val) = Len(pool.first_guesses)
        /\ \A n \in 1 .. Len(pool.origin) :
             pool.futures[pool.origin[n]].slow =>
                 pool.outcome.val[n] = TimeoutSentinel


\* the 'partial' flag a caller reads off a returned value: a value that carries
\* no such flag reads as the result of a search that ran to its end
PartialFlag(r) == "partial" \in DOMAIN r /\ r.partial

\* C19: a call that hit its deadline returns the solutions found so far
\* together with a 'partial' flag, so the value handed back tells a truncated
\* result from the result of a search that ran to its end.
C19_TruncatedResultIsFlagged ==
    (pc = "done" /\ ret.kind = "returned") => (PartialFlag(ret) <=> expired)


\* the permutations of 1..N as rows of a grid
RowPermutations(N) ==
    {p \in [Idx(N) -> 1 .. N] : \A a, b \in Idx(N) : a # b => p[a] # p[b]}

\* every Latin square of order four, row by row
LatinSquaresOfOrderFour ==
    {g \in [Idx(4) -> RowPermutations(4)] :
        \A j \in Idx(4) : {g[i][j] : i \in Idx(4)} = 1 .. 4}

\* the Latin squares that agree with grid on the tiles and nowhere else
EncodedCompletions(grid, tiles) ==
    {g \in LatinSquaresOfOrderFour : SatisfiesEncoding(g, grid, tiles, 4)}

LegalAt(i, j, v) ==
    /\ \A k \in Idx(size) : square[i][k] # v
    /\ \A k \in Idx(size) : square[k][j] # v
    /\ ~(<< i, j >> \in DOMAIN known_wrong_values /\ v \in known_wrong_values[<< i, j >>])

\* the states of a call after its initialization (lines 56-106)
SolverInitialized == pc \in {"backtrack", "loop", "return", "done"} /\ ret.kind # "raised"

\* C21: after initialization and after any placements, propagations and
\* restores, for every empty cell (i, j) and every value v, bit j of
\* row_possible[i][v-1] is set exactly when v is a legal value at (i, j).
C21_RowPossibleIsLegality ==
    SolverInitialized =>
        \A i \in Idx(size), j \in Idx(size) :
            square[i][j] = Unknown =>
                \A v \in 1 .. size : (j \in row_possible[i][v - 1]) <=> LegalAt(i, j, v)


\* C22: row_possible and col_possible agree in every state of the solver:
\* bit j of row_possible[i][v] is set exactly when bit i of col_possible[j][v]
\* is set.
C22_RowColPossibleAgree ==
    SolverInitialized =>
        \A i \in Idx(size), j \in Idx(size), v \in Idx(size) :
            (j \in row_possible[i][v]) <=> (i \in col_possible[j][v])


\* the arrays as lines 56-106 leave them, before the first propagation
InitializedState ==
    apply_wrong_values(
        init_bitmasks([EmptyState(size) EXCEPT
                          !.square = fill_known_values(size, known_values)], size),
        size, known_wrong_values)

\* the arrays with which frame k of the stack entered its for loop, worked out
\* anew from the call's arguments and from the candidates being tried below it
RECURSIVE LoopEntryState(_)
LoopEntryState(k) ==
    IF k = 1
    THEN propagate_constraints(propagate_constraints(InitializedState, size).s, size).s
    ELSE LET parent == stack[k - 1]
         IN  propagate_constraints(
                 place(LoopEntryState(k - 1), size, parent.cell[1], parent.cell[2],
                       Head(parent.candidates)), size).s

\* C23: in the branch loop, after each candidate has been tried (the child
\* found solutions, hit a contradiction, or the validity check rejected the
\* placement), the grid and the four bitmask arrays are what they were right
\* before that candidate was placed, that is what the frame entered its loop
\* with; and the copy taken before a placement is that state.
C23_BranchRestoresState ==
    /\ (pc = "loop" /\ stack # << >>) => State = LoopEntryState(Len(stack))
    /\ \A k \in 1 .. Len(stack) :
          stack[k].current_state # NoneVal =>
              stack[k].current_state.val = LoopEntryState(k)

\* a frame is back in its loop after a child that went two frames deeper, and
\* after a candidate of its own that the validity check or a child refused
C23_Witness ==
    /\ pc = "loop"
    /\ Len(stack) = 1
    /\ Len(branches) >= 2
    /\ Top.candidates # << >>
    /\ State = LoopEntryState(1)
    /\ empty_cells(square, size) > 0


\* the values that may still be written into the empty cell c
LegalValues(c) == {v \in 1 .. size : LegalAt(c[1], c[2], v)}

EmptyCells == {c \in Cells(size) : square[c[1]][c[2]] = Unknown}

\* C24: whenever the solver branches, the cell it branches on is an empty cell
\* with the fewest candidates of all empty cells, and it has at least two.
C24_BranchesOnMostConstrained ==
    (pc = "loop" /\ stack # << >>) =>
        /\ Top.cell \in EmptyCells
        /\ Cardinality(LegalValues(Top.cell)) >= 2
        /\ \A c \in EmptyCells :
               Cardinality(LegalValues(c)) >= Cardinality(LegalValues(Top.cell))

\* a branch on a cell with two candidates while another empty cell has three
C24_Witness ==
    /\ pc = "loop"
    /\ stack # << >>
    /\ Top.current_state = NoneVal
    /\ Len(Top.candidates) = 2
    /\ Cardinality(LegalValues(Top.cell)) = 2
    /\ \E c \in EmptyCells : Cardinality(LegalValues(c)) = 3
    /\ \E c \in EmptyCells : c[1] < Top.cell[1]


IsPrefix(a, b) == Len(a) <= Len(b) /\ SubSeq(b, 1, Len(a)) = a

\* what the retry wrapper ever hands back, and how an attempt after a timeout
\* draws when a seed was given
RetriesReturnOnlySquares ==
    gen.mode = "retries" =>
        /\ gen.result.kind \in {"pending", "square"}
        /\ gen.pc = "done" =>
              gen.result.kind = "square" /\ IsLatin(gen.result.val, gen.N)
        /\ gen.seed # NoneVal =>
              IsPrefix(gen.drawn, gen.previous) \/ IsPrefix(gen.previous, gen.drawn)

\* the wrapper returns in the step in which an attempt fills its last cell
\* before its deadline, with the grid of that attempt
ReturnsWhenAttemptFinishes ==
    (gen.mode = "retries" /\ gen.pc # "done" /\ gen'.pc = "done") =>
        /\ Len(gen.stack) = gen.N * gen.N
        /\ gen.pc = "backtrack"
        /\ gen'.result = GenSquare(gen.square)

\* C25: the retry wrapper calls the generator again with the same seed after
\* every timeout and only ever returns a complete Latin square, never a
\* timeout signal or None; it returns as soon as an attempt finishes before
\* its deadline, and it runs forever only if attempt after attempt times out.
C25_RetriesUntilSquare ==
    /\ []RetriesReturnOnlySquares
    /\ [][ReturnsWhenAttemptFinishes]_vars
    /\ ([]<><<GenTimeout>>_vars) \/ <>(gen.pc = "done")

\* a seeded call that returned a square after an attempt that had drawn at
\* least twice timed out
C25_Witness ==
    /\ gen.mode = "retries"
    /\ gen.pc = "done"
    /\ gen.seed # NoneVal
    /\ Len(gen.previous) >= 2
    /\ gen.N = 3
    /\ gen.result.kind = "square"


\* the solutions list of the call when no deadline ever passes: backtrack()
\* of lines 335-415 run to its end from the arrays s with the list sols
RECURSIVE UntimedFrame(_, _, _), UntimedLoop(_, _, _, _)
UntimedFrame(p, m, sols) ==
    IF max_solutions # NoneVal /\ Len(sols) >= max_solutions.val THEN sols
    ELSE IF ~p.ok THEN sols
    ELSE IF empty_cells(p.s.square, size) = 0 \/ m.best_cell = NoneVal
    THEN IF is_valid_latin_square(p.s.square, size)
         THEN Append(sols, p.s.square) ELSE sols
    ELSE IF m.min_choices = 0 THEN sols
    ELSE UntimedLoop(p.s, m.best_cell.val,
             sort_candidates(
                 get_available_values_fast(p.s, size, m.best_cell.val[1],
                                           m.best_cell.val[2]),
                 p.s, size, m.best_cell.val[1], m.best_cell.val[2]),
             sols)

UntimedBacktrack(s, sols) ==
    UntimedFrame(propagate_constraints(s, size),
                 find_most_constrained_cell(propagate_constraints(s, size).s, size),
                 sols)

UntimedCandidate(s, cell, value, sols) ==
    IF is_valid_state(place(s, size, cell[1], cell[2], value), size)
    THEN UntimedBacktrack(place(s, size, cell[1], cell[2], value), sols)
    ELSE sols

UntimedLoop(s, cell, cands, sols) ==
    IF cands = << >> \/ (max_solutions # NoneVal /\ Len(sols) >= max_solutions.val)
    THEN sols
    ELSE UntimedLoop(s, cell, Tail(cands), UntimedCandidate(s, cell, Head(cands), sols))

\* line 449 reached: what backtrack() leaves in solutions without a deadline
UntimedSolutions ==
    UntimedBacktrack(propagate_constraints(InitializedState, size).s, << >>)

\* a list of solutions read cell by cell
CellValues(sols) ==
    [k \in 1 .. Len(sols) |-> [c \in Cells(size) |-> sols[k][c[1]][c[2]]]]

\* C26: a deadline that passes at a backtrack frame makes the call return
\* normally, no exception leaves it, and the solutions it returns are a prefix
\* of the solutions the same call returns when no deadline passes.
C26_TimeoutReturnsPrefix ==
    /\ (pc = "done" /\ expired) =>
          /\ ret.kind = "returned"
          /\ IsPrefix(CellValues(ret.solutions), CellValues(UntimedSolutions))
    /\ (pc = "done" /\ ~expired /\ ret.kind = "returned" /\ branches # << >>) =>
          CellValues(ret.solutions) = CellValues(UntimedSolutions)

\* the deadline passed after the first of several solutions was found
C26_Witness ==
    /\ pc = "done"
    /\ expired
    /\ ret.kind = "returned"
    /\ Len(ret.solutions) = 1
    /\ Len(UntimedSolutions) >= 3
    /\ IsPrefix(CellValues(ret.solutions), CellValues(UntimedSolutions))

\* lines 152-153: what the two rng.sample(range(N), 2) calls can give
Samples(N) ==
    {q \in Idx(N) \X Idx(N) \X Idx(N) \X Idx(N) : q[1] # q[2] /\ q[3] # q[4]}

\* the squares one call of _random_intercalate_step can leave in place of L
FlipMoves(L, N) ==
    {intercalate_flip(L, q[1], q[2], q[3], q[4]) : q \in Samples(N)}

\* the squares that finitely many calls of _random_intercalate_step can make
\* of the squares of S (lines 209-211, for any burn_in_steps)
RECURSIVE FlipReachable(_, _)
FlipReachable(S, N) ==
    LET T == S \cup UNION {FlipMoves(L, N) : L \in S}
    IN  IF T = S THEN S ELSE FlipReachable(T, N)

LatinSquaresOfOrder(N) ==
    IF N \in Sizes THEN LatinSquares[N] ELSE LatinSquaresOfOrderFour

\* C27: the intercalate-flip chain is irreducible: from the Latin square the
\* burn-in loop holds, every Latin square of the same order can be reached by
\* finitely many _random_intercalate_step moves (in particular for N = 3).
C27_ChainIrreducible ==
    gen.pc = "burn" =>
        LatinSquaresOfOrder(gen.N) \subseteq FlipReachable({gen.square}, gen.N)

HiddenSatisfiesClues ==
    /\ \A c \in DOMAIN sim.known_values :
          sim.known_values[c] = sim.solution[c[1]][c[2]]
    /\ \A c \in DOMAIN sim.known_wrong_values :
          sim.solution[c[1]][c[2]] \notin sim.known_wrong_values[c]

\* C29: in simulate_game, once the feedback of a round is recorded the hidden
\* solution satisfies all accumulated clues (these are the clues the solver
\* is called with), so the solver returns no grid, and the game ends in
\* failure, only when the solve deadline has passed.
C29_FailureOnlyOnDeadline ==
    /\ sim.pc \in {"solving", "round", "done"} /\ sim.feedback # << >> =>
          HiddenSatisfiesClues
    /\ sim.pc = "solving" =>
          /\ known_values = sim.known_values
          /\ known_wrong_values = sim.known_wrong_values
          /\ (pc = "done" /\ ret.kind = "returned" /\ ret.solutions = << >>) => expired
    /\ sim.exit = "failure" => expired

\* a game that ended in failure in its second round or later, every cell
\* having forbidden values by then
C29_Witness ==
    /\ sim.exit = "failure"
    /\ expired
    /\ Len(sim.feedback) >= 2
    /\ DOMAIN sim.known_wrong_values = Cells(sim.N)
    /\ HiddenSatisfiesClues

\* the tile set mirrored in the diagonal, as lines 106 of utils.py mirror it
Transposed(S) == {<< c[2], c[1] >> : c \in S}

\* the sets of k cells whose clue encoding on grid has exactly one completion
ValidTileSets(grid, N, k) ==
    {S \in SUBSET Cells(N) :
        /\ Cardinality(S) = k
        /\ Cardinality({g \in LatinSquaresOfOrder(N) :
                           SatisfiesEncoding(g, grid, S, N)}) = 1}

ReturnedTileSets == {Range(disc.result.val[k].tiles) : k \in DOMAIN disc.result.val}

====
